---- MODULE Spec2Model ----
(***************************************************************************)
(* Alert routing and escalation engine of ami-sos-backend (src/main.py).   *)
(*                                                                         *)
(* The data store is PostgreSQL reached through asyncpg without explicit   *)
(* transactions: every conn.execute / fetch / fetchval is its own          *)
(* autocommitted statement, and a handler can be interleaved with other    *)
(* handlers at every await.  Each handler is therefore a little process    *)
(* whose steps are its SQL statements; tables are sequences of rows in     *)
(* insertion order, a SERIAL id being the row's index.                     *)
(***************************************************************************)
EXTENDS Integers, Sequences, FiniteSets, TLC

VARIABLES
    now,                        \* data store clock NOW(), in minutes
    usuarios_sos,               \* table usuarios_sos
    contactos_confianza,        \* table contactos_confianza
    cuidadores_autorizados,     \* table cuidadores_autorizados
    cuidadores_institucionales, \* table cuidadores_institucionales
    ubicaciones_red,            \* table ubicaciones_red
    dispositivos_ble,           \* table dispositivos_ble
    usuarios_panel,             \* table usuarios_panel
    bucket,                     \* the objects of the Firebase Storage bucket
    alertas_panico,             \* table alertas_panico
    respuestas_institucionales, \* table respuestas_institucionales
    reportes_usuario,           \* table reportes_usuario
    vigilancias,                \* table vigilancias
    confirmaciones_vigilancia,  \* table confirmaciones_vigilancia
    tokens_fcm,                 \* table tokens_fcm
    alertas_enviadas,           \* table alertas_enviadas
    fcm,                        \* the sends that the push transport has received
    bg_tasks,                   \* BackgroundTasks handed over by bg.add_task
    envios,                     \* the background tasks started, by position in bg_tasks
    tareas_ia,                  \* the evidence analyses handed over by bg.add_task
    calls,                      \* the handlers in flight, one per worker slot
    respuesta                   \* the HTTP response returned last

vars == <<now, usuarios_sos, contactos_confianza, cuidadores_autorizados,
          cuidadores_institucionales, ubicaciones_red, dispositivos_ble,
          usuarios_panel, bucket, alertas_panico, respuestas_institucionales, reportes_usuario,
          vigilancias, confirmaciones_vigilancia, tokens_fcm, alertas_enviadas, fcm,
          bg_tasks, envios, tareas_ia, calls, respuesta>>

(* Tables and storage that no handler of the alert machinery writes *)
dbStatic == <<contactos_confianza, cuidadores_autorizados,
              cuidadores_institucionales, dispositivos_ble, usuarios_panel, bucket>>

(* What only _enviar_notificaciones_v2 writes *)
dispatcher == <<tokens_fcm, alertas_enviadas, fcm, envios, tareas_ia>>

(* What the vigilance handlers never write *)
notVig == <<now, usuarios_sos, dbStatic, ubicaciones_red, respuestas_institucionales,
            reportes_usuario, bg_tasks, dispatcher>>

(* What recibir_alerta never writes *)
notAlerta == <<now, usuarios_sos, dbStatic, ubicaciones_red, respuestas_institucionales,
               reportes_usuario, vigilancias, confirmaciones_vigilancia, dispatcher>>

(* What responder_alerta never writes *)
notResp == <<now, usuarios_sos, dbStatic, ubicaciones_red, alertas_panico,
             reportes_usuario, vigilancias, confirmaciones_vigilancia, bg_tasks,
             dispatcher>>

(* What reportar_usuario never writes *)
notAbuse == <<now, dbStatic, alertas_panico, respuestas_institucionales,
              vigilancias, confirmaciones_vigilancia, bg_tasks, dispatcher>>

----------------------------------------------------------------------------
(* Bounds *)

VigWorkers == 2         \* confirmar_vigilancia handlers in flight at the same time
AbuseWorkers == 2       \* reportar_usuario handlers in flight at the same time
AbuseMaxTime == 1       \* minutes the clock runs while reports come in
AlertWorkers == 1       \* recibir_alerta handlers in flight at the same time
MaxAlertas == 1         \* alerts ingested in a run
RelayWorkers == 1       \* relay_ble handlers in flight at the same time
MaxRelays == 2          \* alerts present when a relay request is still accepted
RelayMaxTime == 6       \* minutes the clock runs while relay requests come in
DispWorkers == 1        \* recibir_alerta handlers in flight while dispatches run
MaxEnvios == 2          \* alerts ingested, and so dispatches, in a run
MaxEnCurso == 1         \* dispatches running at the same time
RedWorkers == 1         \* handlers in flight while the community network changes
RedMaxTime == 1         \* minutes the clock runs while the community network changes
MaxAlertasRed == 1      \* alerts ingested while the community network changes
TokWorkers == 2         \* registrar_token handlers in flight at the same time
MaxTokens == 3          \* rows of tokens_fcm in a run
ProtoWorkers == 1       \* obtener_protocolo calls in flight at the same time
MaxUsuarios == 2        \* rows of usuarios_sos in a run of the block machine
NormWorkers == 1        \* normalizar_celular calls in flight at the same time
BleWorkers == 1         \* alerta_ble_unificada handlers in flight at the same time
Bystanders == 2         \* relay_ble handlers in flight for one bracelet at the same time
PanelWorkers == 2       \* panel_setup handlers in flight at the same time
MaxObjetos == 3         \* objects in the storage bucket when a cleanup starts
MaxAlertasBle == 2      \* alerts stored in a run of the BLE button endpoint
MaxCuerpo == 10         \* digits after the leading ones of a number that is normalised
RespWorkers == 2        \* responder_alerta handlers in flight at the same time
MaxRespuestas == 2      \* rows of respuestas_institucionales in a run

(* SQL NULL / Python None for a coordinate, an id or an optional int. *)
NULL == -1

----------------------------------------------------------------------------
(* Phone numbers are strings; a string is a tuple of characters, a digit   *)
(* being the number itself and 10 standing for any non-digit ('+', ' ').   *)

PLUS == 10

CelA    == <<3,0,0,1,1,1,2,2,3,3>>               \* 10 digits, no prefix
CelA57  == <<5,7,3,0,0,1,1,1,2,2,3,3>>           \* the same, prefixed
CelAfmt == <<PLUS,5,7,3,0,0,1,1,1,2,2,3,3>>      \* "+573001112233"
CelB    == <<3,1,0,4,4,4,5,5,6,6>>
CelB57  == <<5,7,3,1,0,4,4,4,5,5,6,6>>
CelC    == <<3,2,0,7,7,7,8,8,9,9>>
CelC57  == <<5,7,3,2,0,7,7,7,8,8,9,9>>
CelD    == <<3,1,5,2,2,2,3,3,4,4>>
CelD57  == <<5,7,3,1,5,2,2,2,3,3,4,4>>
CelE57  == <<5,7,3,0,1,9,9,9,0,0,1,1>>

IsDigit(c) == c \in 0..9

(* re.sub(r'\D', '', celular) *)
SoloDigitos(celular) == SelectSeq(celular, IsDigit)

StartsWith57(d) == Len(d) >= 2 /\ d[1] = 5 /\ d[2] = 7

normalizar_celular(celular) ==
    LET d == SoloDigitos(celular)
        sin_57 == IF StartsWith57(d) /\ Len(d) > 10 THEN SubSeq(d, 3, Len(d)) ELSE d
    IN  [sin |-> sin_57, con |-> <<5,7>> \o sin_57]

----------------------------------------------------------------------------
(* Generic helpers over tables *)

Min(S) == CHOOSE x \in S : \A y \in S : x <= y

Idle == [op |-> "none", pc |-> "idle"]

Free(w) == calls[w].pc = "idle"

NoResponse == [op |-> "none", status |-> 0]

(* The handler in slot w returns (or raises HTTPException(status)). *)
Return(w, status, result) ==
    /\ calls' = [calls EXCEPT ![w] = Idle]
    /\ respuesta' = [op |-> calls[w].op, status |-> status, result |-> result]

----------------------------------------------------------------------------
(* Rows of alertas_panico.  A message is kept structured: which template   *)
(* produced it (or "texto" for a caller-supplied text), the values put in  *)
(* its placeholders, and the annotations appended to it afterwards.        *)

Msg(kind, nombre, tipo, texto, n) ==
    [kind |-> kind, nombre |-> nombre, tipo |-> tipo, texto |-> texto, n |-> n,
     notas |-> <<>>]

AlertaRow(nombre, mensaje, celular, tipo_alerta, latitud, longitud, nivel_alerta, fuente_alerta, nivel_emergencia) ==
    [nombre |-> nombre, mensaje |-> mensaje, fecha_hora |-> now, celular |-> celular,
     atendida |-> "no", tipo_alerta |-> tipo_alerta, latitud |-> latitud,
     longitud |-> longitud, nivel_alerta |-> nivel_alerta,
     fuente_alerta |-> fuente_alerta, nivel_emergencia |-> nivel_emergencia]

----------------------------------------------------------------------------
(* POST /vigilancia *)

(* The row that the INSERT of crear_vigilancia writes for a report by cel  *)
(* at (latitud, longitud); the counters and flags take the defaults of     *)
(* the schema.                                                             *)
VigilanciaRow(cel, nombre, descripcion, latitud, longitud) ==
    [celular |-> normalizar_celular(cel).con, nombre |-> nombre,
     descripcion |-> descripcion, latitud |-> latitud, longitud |-> longitud,
     estado |-> "activa", confirmaciones |-> 0, rechazos |-> 0,
     escalada |-> FALSE, alerta_id |-> NULL, fecha |-> 0]

----------------------------------------------------------------------------
(* POST /vigilancia/confirmar *)

Confirmers == {CelA, CelA57, CelB, CelC57}

(* Vigilancia 1 exists; no vigilancia has id 2. *)
ConfirmarReqs ==
    [vigilancia_id : {1, 2}, celular : Confirmers, confirma : BOOLEAN]

(* if updated['confirmaciones'] >= 2 and not updated['escalada'] *)
debe_escalar_sin_guardia(updated) == updated.confirmaciones >= 2

debe_escalar(updated) == updated.confirmaciones >= 2 /\ ~updated.escalada

(* vig = SELECT * FROM vigilancias WHERE id=$1 AND estado='activa';        *)
(* 404 if there is none.  Of the row read here the handler keeps nothing   *)
(* it uses later; the slot remembers its escalada column.                  *)
cv_select(w) ==
    /\ Free(w)
    /\ \E req \in ConfirmarReqs :
         IF req.vigilancia_id \in DOMAIN vigilancias
            /\ vigilancias[req.vigilancia_id].estado = "activa"
         THEN /\ calls' = [calls EXCEPT ![w] =
                   [op |-> "confirmar_vigilancia", pc |-> "cv_insert", req |-> req,
                    cc |-> normalizar_celular(req.celular).con,
                    vig_escalada |-> vigilancias[req.vigilancia_id].escalada]]
              /\ UNCHANGED respuesta
         ELSE /\ respuesta' = [op |-> "confirmar_vigilancia", status |-> 404,
                               result |-> [escalada |-> FALSE, alerta_id |-> NULL]]
              /\ UNCHANGED calls
    /\ UNCHANGED <<notVig, alertas_panico, vigilancias, confirmaciones_vigilancia>>

(* UNIQUE(vigilancia_id, celular) of confirmaciones_vigilancia: the insert *)
(* of a second row with the same pair raises.                              *)
unique_violada_nunca(vigilancia_id, celular) == FALSE

unique_violada(vigilancia_id, celular) == \E r \in confirmaciones_vigilancia : r.vigilancia_id = vigilancia_id /\ r.celular = celular

(* INSERT INTO confirmaciones_vigilancia; UNIQUE(vigilancia_id, celular)   *)
(* makes the insert raise, which the handler turns into a 409.             *)
cv_insert(w) ==
    /\ calls[w].pc = "cv_insert"
    /\ LET c == calls[w]
           dup == unique_violada(c.req.vigilancia_id, c.cc)
       IN  IF dup
           THEN /\ Return(w, 409, [escalada |-> FALSE, alerta_id |-> NULL])
                /\ UNCHANGED confirmaciones_vigilancia
           ELSE /\ confirmaciones_vigilancia' = confirmaciones_vigilancia \cup
                       {[vigilancia_id |-> c.req.vigilancia_id, celular |-> c.cc,
                         confirma |-> c.req.confirma]}
                /\ calls' = [calls EXCEPT ![w].pc = "cv_count"]
                /\ UNCHANGED respuesta
    /\ UNCHANGED <<notVig, alertas_panico, vigilancias>>

(* UPDATE vigilancias SET confirmaciones = confirmaciones + 1              *)
(* or     UPDATE vigilancias SET rechazos = rechazos + 1                   *)
contar_siempre_confirmaciones(v, confirma) ==
    [vigilancias EXCEPT ![v].confirmaciones = @ + 1]

contar(v, confirma) ==
    IF confirma
    THEN [vigilancias EXCEPT ![v].confirmaciones = @ + 1]
    ELSE [vigilancias EXCEPT ![v].rechazos = @ + 1]

cv_count(w) ==
    /\ calls[w].pc = "cv_count"
    /\ vigilancias' = contar(calls[w].req.vigilancia_id, calls[w].req.confirma)
    /\ calls' = [calls EXCEPT ![w].pc = "cv_reread"]
    /\ UNCHANGED <<notVig, alertas_panico, confirmaciones_vigilancia, respuesta>>

(* updated = SELECT confirmaciones, rechazos, escalada, ... ; then the     *)
(* test that decides whether this call escalates.  Of updated the slot     *)
(* keeps the witness count; its other columns never change after the       *)
(* vigilancia is created and are read from the table when they are used.   *)
cv_reread(w) ==
    /\ calls[w].pc = "cv_reread"
    /\ LET updated == vigilancias[calls[w].req.vigilancia_id]
       IN  IF debe_escalar(updated)
           THEN /\ calls' = [calls EXCEPT ![w] =
                     [op |-> @.op, pc |-> "cv_alert", req |-> @.req, cc |-> @.cc,
                      vig_escalada |-> @.vig_escalada,
                      testigos |-> updated.confirmaciones]]
                /\ UNCHANGED respuesta
           ELSE Return(w, 200, [escalada |-> FALSE, alerta_id |-> NULL])
    /\ UNCHANGED <<notVig, alertas_panico, vigilancias, confirmaciones_vigilancia>>

(* INSERT INTO alertas_panico (... 2, 'seguridad', ..., 'vigilancia', 'no', NOW()) *)
(* Columns the statement does not name take the defaults of the schema.    *)
alerta_de_escalada_nivel_3(u, testigos) ==
    AlertaRow(u.nombre, Msg("vigilancia", "", "", u.descripcion, testigos),
              u.celular, "seguridad", u.latitud, u.longitud, "critica", "vigilancia", 3)

alerta_de_escalada(u, testigos) ==
    AlertaRow(u.nombre, Msg("vigilancia", "", "", u.descripcion, testigos),
              u.celular, "seguridad", u.latitud, u.longitud, "critica", "vigilancia", 2)

cv_alert(w) ==
    /\ calls[w].pc = "cv_alert"
    /\ LET u == vigilancias[calls[w].req.vigilancia_id]
       IN  alertas_panico' = Append(alertas_panico, alerta_de_escalada(u, calls[w].testigos))
    /\ calls' = [calls EXCEPT ![w] =
          [op |-> @.op, pc |-> "cv_link", req |-> @.req, cc |-> @.cc,
           vig_escalada |-> @.vig_escalada, alerta_id |-> Len(alertas_panico) + 1]]
    /\ UNCHANGED <<notVig, vigilancias, confirmaciones_vigilancia, respuesta>>

(* UPDATE vigilancias SET escalada=TRUE, alerta_id=$1 WHERE id=$2 *)
cv_link(w) ==
    /\ calls[w].pc = "cv_link"
    /\ vigilancias' = [vigilancias EXCEPT ![calls[w].req.vigilancia_id] =
                          [@ EXCEPT !.escalada = TRUE, !.alerta_id = calls[w].alerta_id]]
    /\ Return(w, 200, [escalada |-> TRUE, alerta_id |-> calls[w].alerta_id])
    /\ UNCHANGED <<notVig, alertas_panico, confirmaciones_vigilancia>>

confirmar_vigilancia(w) ==
    \/ cv_select(w)
    \/ cv_insert(w)
    \/ cv_count(w)
    \/ cv_reread(w)
    \/ cv_alert(w)
    \/ cv_link(w)

----------------------------------------------------------------------------
(* The vigilance quorum machine on its own *)

EmptyDb ==
    /\ now = 0
    /\ usuarios_panel = <<>>
    /\ bucket = {}
    /\ respuestas_institucionales = <<>>
    /\ confirmaciones_vigilancia = {}
    /\ alertas_enviadas = <<>>
    /\ fcm = <<>>
    /\ bg_tasks = <<>>
    /\ envios = <<>>
    /\ tareas_ia = <<>>
    /\ respuesta = NoResponse

(* One vigilancia has been reported; every statement of                   *)
(* confirmar_vigilancia is keyed on the vigilancia's id.                   *)
InitVig ==
    /\ EmptyDb
    /\ reportes_usuario = {}
    /\ tokens_fcm = <<>>
    /\ dispositivos_ble = <<>>
    /\ contactos_confianza = <<>>
    /\ cuidadores_autorizados = <<>>
    /\ cuidadores_institucionales = <<>>
    /\ usuarios_sos = <<>>
    /\ ubicaciones_red = <<>>
    /\ alertas_panico = <<>>
    /\ vigilancias = <<VigilanciaRow(CelD, "Vecino", "merodeo", 400, 1)>>
    /\ calls = [w \in 1..VigWorkers |-> Idle]

NextVig ==
    \E w \in 1..VigWorkers : confirmar_vigilancia(w)

SpecVig == InitVig /\ [][NextVig]_vars

(* The alerts that were created for vigilancia v: the escalation INSERT    *)
(* copies the vigilancia's reporter and description into the alert.        *)
AlertasDeVigilancia(v) ==
    {i \in DOMAIN alertas_panico :
        /\ alertas_panico[i].fuente_alerta = "vigilancia"
        /\ alertas_panico[i].celular = vigilancias[v].celular
        /\ alertas_panico[i].mensaje.texto = vigilancias[v].descripcion}

(* C1: under any interleaving of confirmar_vigilancia calls by distinct    *)
(* confirmers, at most one alert is ever created for a vigilancia.         *)
C1_EscalatesOnce ==
    \A v \in DOMAIN vigilancias : Cardinality(AlertasDeVigilancia(v)) <= 1

(* A call by worker w that read the vigilancia when it was already         *)
(* escalated, i.e. a call made after the escalation.                       *)
LaterCall(w) ==
    /\ calls[w].op = "confirmar_vigilancia"
    /\ calls[w].vig_escalada

(* C2: escalation is one-way.  No step ever clears escalada, and a step of *)
(* a call made after the escalation creates no alert and leaves the linked *)
(* alert id as it is.                                                      *)
C2_EscalationOneWay ==
    [][ /\ \A v \in DOMAIN vigilancias :
             vigilancias[v].escalada => vigilancias'[v].escalada
        /\ \A w \in 1..VigWorkers :
             (LaterCall(w) /\ confirmar_vigilancia(w)) =>
                /\ alertas_panico' = alertas_panico
                /\ \A v \in DOMAIN vigilancias :
                      vigilancias'[v].alerta_id = vigilancias[v].alerta_id
      ]_vars

(* A call made after the escalation has stored its confirmation, bumped    *)
(* the count to at least 2 and is about to decide whether to escalate.     *)
C2_Witness ==
    \E w \in 1..VigWorkers :
        /\ LaterCall(w)
        /\ calls[w].pc = "cv_reread"
        /\ vigilancias[calls[w].req.vigilancia_id].confirmaciones >= 3
        /\ vigilancias[calls[w].req.vigilancia_id].escalada

----------------------------------------------------------------------------
(* The clock of the data store *)

Tick(max) ==
    /\ now < max
    /\ now' = now + 1
    /\ UNCHANGED <<usuarios_sos, dbStatic, ubicaciones_red, alertas_panico,
                   respuestas_institucionales, reportes_usuario, vigilancias,
                   confirmaciones_vigilancia, bg_tasks, dispatcher, calls, respuesta>>

----------------------------------------------------------------------------
(* Rows of usuarios_sos and ubicaciones_red *)

(* INSERT INTO usuarios_sos of registrar_usuario: the celular column gets  *)
(* the prefixed form; bloqueado defaults to FALSE.  motivo_bloqueo holds   *)
(* the n of 'auto_block_{n}_reports', 0 for NULL.                          *)
UsuarioRow(celular, nombre) ==
    [celular |-> normalizar_celular(celular).con, nombre |-> nombre,
     bloqueado |-> FALSE, motivo_bloqueo |-> 0, fecha_bloqueo |-> NULL,
     fcm_token |-> ""]

(* INSERT INTO ubicaciones_red of actualizar_ubicacion *)
UbicacionRow(celular, nombre, latitud, longitud, disponible, t) ==
    [celular |-> normalizar_celular(celular).con, nombre |-> nombre,
     latitud |-> latitud, longitud |-> longitud, disponible |-> disponible,
     actualizado_at |-> t]

----------------------------------------------------------------------------
(* POST /usuario/reportar *)

Reporters == {CelA57, CelB, CelC57, CelD, CelE57}
Reportados == {CelA}

ReportarReqs == [celular_reporta : Reporters, celular_reportado : Reportados]

UMBRAL_BLOQUEO == 3

(* SELECT COUNT( * ) FROM reportes_usuario WHERE celular_reportado=$1 *)
total_reportes(cc_reportado) ==
    Cardinality({r \in reportes_usuario : r.celular_reportado = cc_reportado})

(* if total_reportes >= 3 *)
debe_bloquear_desde_2(total) == total >= 2

debe_bloquear(total) == total >= UMBRAL_BLOQUEO

(* The self-report test, then                                              *)
(* SELECT id FROM reportes_usuario WHERE celular_reportado=$1 AND celular_reporta=$2 *)
ru_check_de(w, req) ==
    /\ Free(w)
    /\  LET cc_reporta == normalizar_celular(req.celular_reporta).con
             cc_reportado == normalizar_celular(req.celular_reportado).con
             existe == \E r \in reportes_usuario :
                          r.celular_reportado = cc_reportado /\ r.celular_reporta = cc_reporta
             status == IF cc_reporta = cc_reportado THEN 400 ELSE 409
         IN  IF cc_reporta = cc_reportado \/ existe
             THEN /\ respuesta' = [op |-> "reportar_usuario", status |-> status,
                                   result |-> [total_reportes |-> 0, usuario_bloqueado |-> FALSE]]
                  /\ UNCHANGED calls
             ELSE /\ calls' = [calls EXCEPT ![w] =
                       [op |-> "reportar_usuario", pc |-> "ru_insert", req |-> req,
                        cc_reporta |-> cc_reporta, cc_reportado |-> cc_reportado,
                        total |-> 0]]
                  /\ UNCHANGED respuesta
    /\ UNCHANGED <<notAbuse, usuarios_sos, ubicaciones_red, reportes_usuario>>

(* The request arrives *)
ru_check(w) == \E req \in ReportarReqs : ru_check_de(w, req)

(* INSERT INTO reportes_usuario.  UNIQUE(celular_reportado, celular_reporta) *)
(* makes the insert raise when a concurrent call stored the same pair      *)
(* after this call's check; nothing catches it.                            *)
ru_insert(w) ==
    /\ calls[w].pc = "ru_insert"
    /\ LET c == calls[w]
           row == [celular_reportado |-> c.cc_reportado, celular_reporta |-> c.cc_reporta]
       IN  IF row \in reportes_usuario
           THEN /\ Return(w, 500, [total_reportes |-> 0, usuario_bloqueado |-> FALSE])
                /\ UNCHANGED reportes_usuario
           ELSE /\ reportes_usuario' = reportes_usuario \cup {row}
                /\ calls' = [calls EXCEPT ![w].pc = "ru_count"]
                /\ UNCHANGED respuesta
    /\ UNCHANGED <<notAbuse, usuarios_sos, ubicaciones_red>>

(* total_reportes = SELECT COUNT( * ) ...; bloqueado = False; the threshold test *)
ru_count(w) ==
    /\ calls[w].pc = "ru_count"
    /\ LET total == total_reportes(calls[w].cc_reportado)
       IN  IF debe_bloquear(total)
           THEN /\ calls' = [calls EXCEPT ![w].pc = "ru_block", ![w].total = total]
                /\ UNCHANGED respuesta
           ELSE Return(w, 200, [total_reportes |-> total, usuario_bloqueado |-> FALSE])
    /\ UNCHANGED <<notAbuse, usuarios_sos, ubicaciones_red, reportes_usuario>>

(* UPDATE usuarios_sos SET bloqueado=TRUE, motivo_bloqueo=$1, fecha_bloqueo=NOW() *)
(* WHERE celular IN ($2, $3)                                               *)
ru_block(w) ==
    /\ calls[w].pc = "ru_block"
    /\ LET n == normalizar_celular(calls[w].req.celular_reportado)
       IN  usuarios_sos' = [u \in DOMAIN usuarios_sos |->
              IF usuarios_sos[u].celular \in {n.sin, n.con}
              THEN [usuarios_sos[u] EXCEPT !.bloqueado = TRUE,
                                           !.motivo_bloqueo = calls[w].total,
                                           !.fecha_bloqueo = now]
              ELSE usuarios_sos[u]]
    /\ calls' = [calls EXCEPT ![w].pc = "ru_ping"]
    /\ UNCHANGED <<notAbuse, ubicaciones_red, reportes_usuario, respuesta>>

(* UPDATE ubicaciones_red SET disponible=FALSE WHERE celular=$1 *)
ru_ping(w) ==
    /\ calls[w].pc = "ru_ping"
    /\ ubicaciones_red' = [i \in DOMAIN ubicaciones_red |->
          IF ubicaciones_red[i].celular = calls[w].cc_reportado
          THEN [ubicaciones_red[i] EXCEPT !.disponible = FALSE]
          ELSE ubicaciones_red[i]]
    /\ Return(w, 200, [total_reportes |-> calls[w].total, usuario_bloqueado |-> TRUE])
    /\ UNCHANGED <<notAbuse, usuarios_sos, reportes_usuario>>

reportar_usuario(w) ==
    \/ ru_check(w)
    \/ ru_insert(w)
    \/ ru_count(w)
    \/ ru_block(w)
    \/ ru_ping(w)

----------------------------------------------------------------------------
(* The abuse quorum machine on its own: one registered person who shares   *)
(* their location with the community network, and their reporters.         *)

InitAbuse ==
    /\ EmptyDb
    /\ reportes_usuario = {}
    /\ tokens_fcm = <<>>
    /\ dispositivos_ble = <<>>
    /\ contactos_confianza = <<>>
    /\ cuidadores_autorizados = <<>>
    /\ cuidadores_institucionales = <<>>
    /\ usuarios_sos = <<UsuarioRow(CelA, "Ana")>>
    /\ ubicaciones_red = <<UbicacionRow(CelA, "Ana", 400, 1, TRUE, 0)>>
    /\ alertas_panico = <<>>
    /\ vigilancias = <<>>
    /\ calls = [w \in 1..AbuseWorkers |-> Idle]

NextAbuse ==
    \/ Tick(AbuseMaxTime)
    \/ \E w \in 1..AbuseWorkers : reportar_usuario(w)

SpecAbuse == InitAbuse /\ [][NextAbuse]_vars

(* The ping rows of the person stored in usuarios_sos row u *)
PingsDe(u) ==
    {i \in DOMAIN ubicaciones_red :
        ubicaciones_red[i].celular = normalizar_celular(usuarios_sos[u].celular).con}

(* The reports against the person stored in usuarios_sos row u *)
ReportesContra(u) ==
    {r \in reportes_usuario :
        r.celular_reportado = normalizar_celular(usuarios_sos[u].celular).con}

(* C3: the 3rd report blocks the person and makes their ping unavailable   *)
(* as one atomic step: while a reportar_usuario call is in its blocking    *)
(* transition, no state shows the person blocked with the ping still       *)
(* available; and a person with fewer than 3 reports is not blocked.       *)
C3_BlockAtomic ==
    \A u \in DOMAIN usuarios_sos :
        /\ usuarios_sos[u].bloqueado => Cardinality(ReportesContra(u)) >= 3
        /\ \A w \in 1..AbuseWorkers :
              ( /\ calls[w].op = "reportar_usuario"
                /\ calls[w].pc = "ru_ping"
                /\ usuarios_sos[u].celular = calls[w].cc_reportado
                /\ usuarios_sos[u].bloqueado )
              => \A i \in PingsDe(u) : ~ubicaciones_red[i].disponible

(* C4: a 4th or later report against an already blocked person is a no-op *)
(* on the block: no step of the call that counted more than 3 reports      *)
(* changes blocked, the recorded reason or the recorded timestamp.         *)
C4_BlockIdempotent ==
    [][\A w \in 1..AbuseWorkers : \A u \in DOMAIN usuarios_sos :
          ( /\ calls[w].op = "reportar_usuario"
            /\ calls[w].total > UMBRAL_BLOQUEO
            /\ usuarios_sos[u].bloqueado
            /\ reportar_usuario(w) )
          => /\ usuarios_sos'[u].bloqueado
             /\ usuarios_sos'[u].motivo_bloqueo = usuarios_sos[u].motivo_bloqueo
             /\ usuarios_sos'[u].fecha_bloqueo = usuarios_sos[u].fecha_bloqueo]_vars

----------------------------------------------------------------------------
(* POST /alerta/responder *)

(* Python truthiness of an Optional[int] / Optional[float]: None and 0 are false *)
Truthy(x) == x # NULL /\ x # 0

(* The result of enviar_push: success, an HTTP error naming the token      *)
(* UNREGISTERED or INVALID, another HTTP error, or an exception raised by  *)
(* the HTTP client (timeout, connection error).                            *)
ResultadosPush == {"ok", "UNREGISTERED", "error", "timeout"}

(* INSERT INTO tokens_fcm of registrar_token: the celular column gets the  *)
(* prefixed form.                                                          *)
TokenRow(id_persona, celular, token, fecha) ==
    [id_persona |-> id_persona, celular |-> normalizar_celular(celular).con,
     token |-> token, valido |-> TRUE, fecha |-> fecha]

(* ORDER BY fecha DESC LIMIT 1 over the rows filas of tokens_fcm *)
mas_recientes(filas) ==
    {i \in filas : \A j \in filas : tokens_fcm[j].fecha <= tokens_fcm[i].fecha}

(* buscar_token: the tokens it may return, "" standing for no token.  The  *)
(* valid rows of tokens_fcm under either form of the celular come first,   *)
(* then usuarios_sos.fcm_token, then the valid rows under the id_persona.  *)
buscar_token(cel_sin, cel_con, id_persona) ==
    LET por_celular == {i \in DOMAIN tokens_fcm :
                           /\ tokens_fcm[i].celular \in {cel_sin, cel_con}
                           /\ tokens_fcm[i].valido}
        perfil == {u \in DOMAIN usuarios_sos :
                      /\ usuarios_sos[u].celular \in {cel_sin, cel_con}
                      /\ usuarios_sos[u].fcm_token # ""}
        por_id == {i \in DOMAIN tokens_fcm :
                      /\ Truthy(id_persona)
                      /\ tokens_fcm[i].id_persona = id_persona
                      /\ tokens_fcm[i].valido}
    IN  IF por_celular # {} THEN {tokens_fcm[i].token : i \in mas_recientes(por_celular)}
        ELSE IF perfil # {} THEN {usuarios_sos[u].fcm_token : u \in perfil}
        ELSE IF por_id # {} THEN {tokens_fcm[i].token : i \in mas_recientes(por_id)}
        ELSE {""}

Responders == {CelB, CelB57}

(* Alert 1 exists; no alert has id 2. *)
ResponderReqs ==
    [alerta_id : {1, 2}, celular : Responders, id_persona : {NULL, 0, 7},
     tipo_respondedor : {"cuidador"}, accion : {"voy_en_camino"}]

(* SELECT * FROM alertas_panico WHERE id=$1: the rows fetched *)
alerta_por_id_cualquiera(alerta_id) ==
    {alertas_panico[i] : i \in DOMAIN alertas_panico}

alerta_por_id(alerta_id) ==
    {alertas_panico[i] : i \in DOMAIN alertas_panico \cap {alerta_id}}

(* alerta = fetchrow(...); HTTPException(404) if there is none.  When the  *)
(* request carries no id_persona the duplicate check is skipped and the    *)
(* next statement is the lookup of the responder's name.                   *)
rs_alerta_de(w, req) ==
    /\ Free(w)
    /\ Len(respuestas_institucionales) < MaxRespuestas
    /\ LET filas == alerta_por_id(req.alerta_id)
       IN  IF filas # {}
           THEN /\ \E alerta \in filas :
                     calls' = [calls EXCEPT ![w] =
                        [op |-> "responder_alerta",
                         pc |-> IF Truthy(req.id_persona) THEN "rs_existe" ELSE "rs_nombre",
                         req |-> req, cc |-> normalizar_celular(req.celular).con,
                         cs |-> normalizar_celular(req.celular).sin,
                         nombre_resp |-> "Respondedor",
                         alerta_celular |-> alerta.celular]]
                /\ UNCHANGED respuesta
           ELSE /\ respuesta' = [op |-> "responder_alerta", status |-> 404, result |-> "error"]
                /\ UNCHANGED calls
    /\ UNCHANGED <<notResp, respuestas_institucionales>>

rs_alerta(w) == \E req \in ResponderReqs : rs_alerta_de(w, req)

(* if req.id_persona: SELECT id FROM respuestas_institucionales            *)
(*   WHERE alerta_id=$1 AND celular IN ($2,$3); 409 if there is one        *)
rs_existe(w) ==
    /\ calls[w].pc = "rs_existe"
    /\ LET c == calls[w]
           existe == \E i \in DOMAIN respuestas_institucionales :
                        /\ respuestas_institucionales[i].alerta_id = c.req.alerta_id
                        /\ respuestas_institucionales[i].celular \in {c.cs, c.cc}
       IN  IF existe
           THEN Return(w, 409, "error")
           ELSE /\ calls' = [calls EXCEPT ![w].pc = "rs_nombre"]
                /\ UNCHANGED respuesta
    /\ UNCHANGED <<notResp, respuestas_institucionales>>

(* tipo_respondedor is not 'institucional':                                *)
(* SELECT nombre FROM usuarios_sos WHERE celular IN ($1,$2) LIMIT 1        *)
rs_nombre(w) ==
    /\ calls[w].pc = "rs_nombre"
    /\ LET c == calls[w]
           usr == {u \in DOMAIN usuarios_sos : usuarios_sos[u].celular \in {c.cs, c.cc}}
       IN  calls' = [calls EXCEPT ![w].pc = "rs_insert",
                                  ![w].nombre_resp =
                                     IF usr = {} THEN "Respondedor"
                                     ELSE usuarios_sos[Min(usr)].nombre]
    /\ UNCHANGED <<notResp, respuestas_institucionales, respuesta>>

(* INSERT INTO respuestas_institucionales (alerta_id, id_persona, celular, ...) *)
(* The table has no unique constraint.                                     *)
rs_insert(w) ==
    /\ calls[w].pc = "rs_insert"
    /\ LET c == calls[w]
       IN  respuestas_institucionales' = Append(respuestas_institucionales,
              [alerta_id |-> c.req.alerta_id,
               id_persona |-> IF Truthy(c.req.id_persona) THEN c.req.id_persona ELSE 0,
               celular |-> c.cc, entidad |-> "Cuidador", nombre |-> c.nombre_resp,
               estado |-> c.req.accion])
    /\ calls' = [calls EXCEPT ![w].pc = "rs_notificar"]
    /\ UNCHANGED <<notResp, respuesta>>

(* tk = buscar_token(u_sin, u_con) for the alert's source and, if there is *)
(* a token, an awaited enviar_push whose result is not looked at; an       *)
(* exception of the HTTP client is caught nowhere and ends the call with   *)
(* 500, the row of rs_insert being committed already.                      *)
rs_notificar(w) ==
    /\ calls[w].pc = "rs_notificar"
    /\ LET c == calls[w]
           u == normalizar_celular(c.alerta_celular)
       IN  \E token \in buscar_token(u.sin, u.con, NULL) :
              IF token = ""
              THEN /\ Return(w, 200, c.nombre_resp)
                   /\ UNCHANGED fcm
              ELSE \E resultado \in ResultadosPush :
                      /\ fcm' = Append(fcm, [alerta_id |-> c.req.alerta_id, k |-> 0,
                                             celular |-> c.alerta_celular, token |-> token,
                                             cuerpo |-> Msg("respuesta", c.nombre_resp, "", c.req.accion, 0),
                                             resultado |-> resultado,
                                             tokens |-> Len(tokens_fcm)])
                      /\ IF resultado = "timeout"
                         THEN Return(w, 500, "error")
                         ELSE Return(w, 200, c.nombre_resp)
    /\ UNCHANGED <<now, usuarios_sos, dbStatic, ubicaciones_red, alertas_panico,
                   reportes_usuario, vigilancias, confirmaciones_vigilancia, bg_tasks,
                   tokens_fcm, alertas_enviadas, envios, tareas_ia,
                   respuestas_institucionales>>

responder_alerta(w) ==
    \/ rs_alerta(w)
    \/ rs_existe(w)
    \/ rs_nombre(w)
    \/ rs_insert(w)
    \/ rs_notificar(w)

----------------------------------------------------------------------------
(* Responses to one alert *)

InitResp ==
    /\ EmptyDb
    /\ reportes_usuario = {}
    /\ tokens_fcm = <<TokenRow(NULL, CelA, "tk_ana", 0)>>
    /\ dispositivos_ble = <<>>
    /\ contactos_confianza = <<>>
    /\ cuidadores_autorizados = <<>>
    /\ cuidadores_institucionales = <<>>
    /\ usuarios_sos = <<UsuarioRow(CelA, "Ana"), UsuarioRow(CelB, "Beto")>>
    /\ ubicaciones_red = <<>>
    /\ vigilancias = <<>>
    /\ alertas_panico = <<AlertaRow("Ana", Msg("grave", "Ana", "salud", "", 0),
                                    normalizar_celular(CelA).con, "salud", NULL, NULL,
                                    "critica", "manual", 2)>>
    /\ calls = [w \in 1..RespWorkers |-> Idle]

NextResp == \E w \in 1..RespWorkers : responder_alerta(w)

SpecResp == InitResp /\ [][NextResp]_vars

(* The Response rows of responder identity cel for alert a *)
RespuestasDe(a, cel) ==
    {i \in DOMAIN respuestas_institucionales :
        /\ respuestas_institucionales[i].alerta_id = a
        /\ normalizar_celular(respuestas_institucionales[i].celular).con
              = normalizar_celular(cel).con}

(* C5: in every reachable state there is at most one Response row per      *)
(* (alert, responder identity): a second respond call creates no row.      *)
C5_OneResponsePerResponder ==
    \A a \in DOMAIN alertas_panico : \A cel \in Responders :
        Cardinality(RespuestasDe(a, cel)) <= 1

----------------------------------------------------------------------------
(* Geography.  Positions lie on a grid of metres: latitud counts metres    *)
(* along a meridian, on which the great-circle distance of distancia_km is *)
(* exactly the difference of the latitudes; one unit of longitud is 5 km.  *)

Abs(x) == IF x < 0 THEN -x ELSE x

(* distancia_km, in metres *)
distancia_m(lat1, lon1, lat2, lon2) == Abs(lat2 - lat1) + 5000 * Abs(lon2 - lon1)

(* if dist <= 1.0 *)
RADIO_M == 1000

dentro_del_radio_estricto(dist) == dist < RADIO_M

dentro_del_radio(dist) == dist <= RADIO_M

(* round(dist, 2): kilometres with two decimals, i.e. tens of metres *)
redondear_2(dist) == (dist + 5) \div 10

(* list.sort(key=lambda x: x['distancia_km']): a stable sort *)
RECURSIVE insertar_ordenado(_, _)
insertar_ordenado(lista, x) ==
    IF lista = <<>> THEN <<x>>
    ELSE IF x.distancia_km < Head(lista).distancia_km
         THEN <<x>> \o lista
         ELSE <<Head(lista)>> \o insertar_ordenado(Tail(lista), x)

RECURSIVE ordenar_por_distancia(_)
ordenar_por_distancia(lista) ==
    IF lista = <<>> THEN <<>>
    ELSE insertar_ordenado(ordenar_por_distancia(SubSeq(lista, 1, Len(lista) - 1)),
                           lista[Len(lista)])

----------------------------------------------------------------------------
(* POST /alerta: the recipient circles *)

Destinatario(celular, nombre, tipo, id_persona, entidad, dist) ==
    [celular |-> celular, nombre |-> nombre, tipo |-> tipo, id_persona |-> id_persona,
     entidad |-> entidad, distancia_km |-> dist]

(* for r in rows: if r['celular'] not in cels_vistos: cuidadores.append(..) *)
RECURSIVE agregar_no_vistos(_, _)
agregar_no_vistos(cuidadores, nuevos) ==
    IF nuevos = <<>> THEN cuidadores
    ELSE IF \E i \in DOMAIN cuidadores : cuidadores[i].celular = Head(nuevos).celular
         THEN agregar_no_vistos(cuidadores, Tail(nuevos))
         ELSE agregar_no_vistos(Append(cuidadores, Head(nuevos)), Tail(nuevos))

(* SELECT cc.celular, cc.nombre FROM contactos_confianza cc INNER JOIN     *)
(* usuarios_sos u ON u.id = cc.usuario_id WHERE u.celular IN ($1,$2)       *)
(* AND cc.disponible_emergencias=TRUE AND cc.activo=TRUE                   *)
contactos_de(cel_sin, cel_con) ==
    LET ok(c) == /\ c.usuario_id \in DOMAIN usuarios_sos
                 /\ usuarios_sos[c.usuario_id].celular \in {cel_sin, cel_con}
                 /\ c.disponible_emergencias
                 /\ c.activo
        rows == SelectSeq(contactos_confianza, ok)
    IN  [i \in DOMAIN rows |->
            Destinatario(rows[i].celular, rows[i].nombre, "cuidador", NULL, "", 0)]

(* SELECT celular_cuidador, id_persona_cuidador FROM cuidadores_autorizados *)
(* WHERE celular_cuidado IN ($1,$2)                                        *)
autorizados_de(cel_sin, cel_con) ==
    LET ok(c) == c.celular_cuidado \in {cel_sin, cel_con}
        rows == SelectSeq(cuidadores_autorizados, ok)
    IN  [i \in DOMAIN rows |->
            Destinatario(rows[i].celular_cuidador, "Cuidador", "cuidador",
                         rows[i].id_persona_cuidador, "", 0)]

(* ti = (r['tipo'] or '').lower() *)
minusculas(tipo) == IF tipo = "Policia" THEN "policia" ELSE tipo

(* The type rule of the institutional circle *)
incluir(tipo_alerta, ti) ==
    IF tipo_alerta \in {"emergencia", "caida"} THEN TRUE
    ELSE IF tipo_alerta \in {"seguridad", "violencia"} THEN ti \in {"policia", "seguridad", ""}
    ELSE IF tipo_alerta = "salud" THEN ti \in {"ambulancia", "salud", ""}
    ELSE IF tipo_alerta = "incendio" THEN ti \in {"bomberos", "emergencia", ""}
    ELSE TRUE

(* The loop over cuidadores_institucionales WHERE activo=TRUE AND latitud  *)
(* IS NOT NULL AND longitud IS NOT NULL, and the sort that follows it      *)
institucionales_cercanos(lat, lon, tipo_alerta) ==
    LET ok(r) == /\ r.activo
                 /\ r.latitud # NULL
                 /\ r.longitud # NULL
                 /\ dentro_del_radio(distancia_m(lat, lon, r.latitud, r.longitud))
                 /\ incluir(tipo_alerta, minusculas(r.tipo))
        rows == SelectSeq(cuidadores_institucionales, ok)
    IN  ordenar_por_distancia(
           [i \in DOMAIN rows |->
               Destinatario(rows[i].celular, rows[i].nombre,
                            IF rows[i].tipo = "" THEN "institucional" ELSE rows[i].tipo,
                            rows[i].id_persona, rows[i].entidad,
                            redondear_2(distancia_m(lat, lon, rows[i].latitud,
                                                    rows[i].longitud)))])

(* AND ur.actualizado_at > NOW() - INTERVAL '30 minutes' *)
FRESCURA_MIN == 30

(* buscar_red_comunitaria(pool, lat, lon, excluir_celular) *)
buscar_red_comunitaria(lat, lon, excluir_celular) ==
    LET bloqueado(cel) == \E u \in DOMAIN usuarios_sos :
                             usuarios_sos[u].celular = cel /\ usuarios_sos[u].bloqueado
        ok(r) == /\ r.disponible
                 /\ r.latitud # NULL
                 /\ r.longitud # NULL
                 /\ r.actualizado_at > now - FRESCURA_MIN
                 /\ r.celular # excluir_celular
                 /\ ~bloqueado(r.celular)
                 /\ dentro_del_radio(distancia_m(lat, lon, r.latitud, r.longitud))
        rows == SelectSeq(ubicaciones_red, ok)
    IN  ordenar_por_distancia(
           [i \in DOMAIN rows |->
               Destinatario(rows[i].celular,
                            IF rows[i].nombre = "" THEN "Miembro red" ELSE rows[i].nombre,
                            "comunidad", NULL, "",
                            redondear_2(distancia_m(lat, lon, rows[i].latitud,
                                                    rows[i].longitud)))])

----------------------------------------------------------------------------
(* POST /alerta *)

(* if nivel not in (1, 2, 3): nivel = 2 *)
nivel_saturado(nivel_emergencia) ==
    IF nivel_emergencia < 1 THEN 1 ELSE IF nivel_emergencia > 3 THEN 3 ELSE nivel_emergencia

nivel_efectivo(nivel_emergencia) ==
    IF nivel_emergencia \notin {1, 2, 3} THEN 2 ELSE nivel_emergencia

(* A request's mensaje: the empty string, or a text *)
SinMensaje == Msg("", "", "", "", 0)

Texto(texto) == Msg("texto", "", "", texto, 0)

(* The message: the caller's text, or the template of the tier *)
mensaje_de(req, nivel, nombre) ==
    IF req.mensaje # SinMensaje THEN req.mensaje
    ELSE IF nivel = 1 THEN Msg("leve", nombre, "", "", now)
    ELSE IF nivel = 2 THEN Msg("grave", nombre, req.tipo_alerta, "", now)
    ELSE Msg("critica", nombre, req.tipo_alerta, "", now)

(* tipo_db = req.tipo_alerta if req.tipo_alerta in tipos_ok else 'otro' *)
tipo_db(tipo_alerta) ==
    IF tipo_alerta \in {"salud", "seguridad", "violencia", "incendio", "caida", "otro"}
    THEN tipo_alerta ELSE "otro"

(* nivel_alerta_db = 'leve' if nivel == 1 else 'critica' *)
nivel_alerta_db(nivel) == IF nivel = 1 THEN "leve" ELSE "critica"

(* fuente_db = fuente_map.get(req.fuente_alerta, 'manual') *)
fuente_db(fuente_alerta) ==
    IF fuente_alerta \in {"manilla_ble", "boton_esp32"} THEN "boton"
    ELSE IF fuente_alerta = "relay_ble" THEN "relay"
    ELSE "manual"

(* if nivel >= 2 and req.latitud and req.longitud *)
activa_institucional_sin_nivel(nivel, lat, lon) == Truthy(lat) /\ Truthy(lon)

activa_institucional(nivel, lat, lon) == nivel >= 2 /\ Truthy(lat) /\ Truthy(lon)

(* if nivel >= 3 and req.latitud and req.longitud *)
activa_comunidad_sin_coordenadas(nivel, lat, lon) == nivel >= 3

activa_comunidad(nivel, lat, lon) == nivel >= 3 /\ Truthy(lat) /\ Truthy(lon)

(* The locals of recibir_alerta once the request is in: the normalized     *)
(* identity, the clamped tier and the display name (the caller's, or the   *)
(* one of SELECT nombre FROM usuarios_sos WHERE celular IN ($1,$2), or     *)
(* 'Usuario').                                                             *)
alerta_en_curso(op, req) ==
    LET n == normalizar_celular(req.celular)
        usr == {u \in DOMAIN usuarios_sos : usuarios_sos[u].celular \in {n.sin, n.con}}
    IN  [op |-> op, pc |-> "ra_insert", req |-> req,
         cel_sin |-> n.sin, cel_con |-> n.con,
         nivel |-> nivel_efectivo(req.nivel_emergencia),
         nombre |-> IF req.nombre # "" THEN req.nombre
                    ELSE IF usr = {} THEN "Usuario" ELSE usuarios_sos[Min(usr)].nombre,
         mensaje |-> SinMensaje, alerta_id |-> NULL,
         cuidadores |-> <<>>, institucionales |-> <<>>, comunidad |-> <<>>]

AlertaCoords == {<<NULL, NULL>>, <<NULL, 1>>, <<400, NULL>>, <<0, 1>>, <<400, 1>>}

AlertaReq(nombre, nivel_emergencia, tipo_alerta, mensaje, latitud, longitud) ==
    [celular |-> CelA, nombre |-> nombre, nivel_emergencia |-> nivel_emergencia,
     tipo_alerta |-> tipo_alerta, mensaje |-> mensaje, latitud |-> latitud,
     longitud |-> longitud, fuente_alerta |-> "app"]

(* Requests without a name over every tier, type, text and position, and   *)
(* requests that carry their own name.                                     *)
AlertaReqs ==
    {AlertaReq("", niv, tipo, men, co[1], co[2]) :
        niv \in 0..4, tipo \in {"salud", "seguridad"}, men \in {SinMensaje, Texto("auxilio")},
        co \in AlertaCoords}
    \cup {AlertaReq("Ana M.", niv, "salud", SinMensaje, 400, 1) : niv \in {1, 3}}

(* The request arrives; the name is looked up when the caller gave none. *)
ra_nombre(w) ==
    /\ Free(w)
    /\ Len(alertas_panico) < MaxAlertas
    /\ \E req \in AlertaReqs : calls' = [calls EXCEPT ![w] = alerta_en_curso("recibir_alerta", req)]
    /\ UNCHANGED <<notAlerta, alertas_panico, bg_tasks, respuesta>>

(* INSERT INTO alertas_panico ... RETURNING id *)
ra_insert(w) ==
    /\ calls[w].pc = "ra_insert"
    /\ LET c == calls[w]
           mensaje == mensaje_de(c.req, c.nivel, c.nombre)
       IN  /\ alertas_panico' = Append(alertas_panico,
                 AlertaRow(c.nombre, mensaje, c.cel_con, tipo_db(c.req.tipo_alerta),
                           c.req.latitud, c.req.longitud, nivel_alerta_db(c.nivel),
                           fuente_db(c.req.fuente_alerta), c.nivel))
           /\ calls' = [calls EXCEPT ![w].pc = "ra_contactos", ![w].mensaje = mensaje,
                                     ![w].alerta_id = Len(alertas_panico) + 1]
    /\ UNCHANGED <<notAlerta, bg_tasks, respuesta>>

(* Personal circle, source (a): the emergency contacts *)
ra_contactos(w) ==
    /\ calls[w].pc = "ra_contactos"
    /\ calls' = [calls EXCEPT ![w].pc = "ra_autorizados",
                              ![w].cuidadores =
                                 agregar_no_vistos(<<>>, contactos_de(calls[w].cel_sin,
                                                                      calls[w].cel_con))]
    /\ UNCHANGED <<notAlerta, alertas_panico, bg_tasks, respuesta>>

(* Personal circle, source (b): the authorized caregivers *)
ra_autorizados(w) ==
    /\ calls[w].pc = "ra_autorizados"
    /\ calls' = [calls EXCEPT ![w].pc = "ra_institucionales",
                              ![w].cuidadores =
                                 agregar_no_vistos(@, autorizados_de(calls[w].cel_sin,
                                                                     calls[w].cel_con))]
    /\ UNCHANGED <<notAlerta, alertas_panico, bg_tasks, respuesta>>

(* Institutional circle; institucionales stays [] when the test fails *)
ra_institucionales(w) ==
    /\ calls[w].pc = "ra_institucionales"
    /\ LET c == calls[w]
       IN  calls' = [calls EXCEPT ![w].pc = "ra_comunidad",
                                  ![w].institucionales =
                                     IF activa_institucional(c.nivel, c.req.latitud, c.req.longitud)
                                     THEN institucionales_cercanos(c.req.latitud, c.req.longitud,
                                                                   c.req.tipo_alerta)
                                     ELSE <<>>]
    /\ UNCHANGED <<notAlerta, alertas_panico, bg_tasks, respuesta>>

(* Community circle; comunidad stays [] when the test fails *)
ra_comunidad(w) ==
    /\ calls[w].pc = "ra_comunidad"
    /\ LET c == calls[w]
       IN  calls' = [calls EXCEPT ![w].pc = "ra_tarea",
                                  ![w].comunidad =
                                     IF activa_comunidad(c.nivel, c.req.latitud, c.req.longitud)
                                     THEN buscar_red_comunitaria(c.req.latitud, c.req.longitud,
                                                                 c.cel_con)
                                     ELSE <<>>]
    /\ UNCHANGED <<notAlerta, alertas_panico, bg_tasks, respuesta>>

(* for i in institucionales[:5] *)
primeros_5(lista) == SubSeq(lista, 1, IF Len(lista) < 5 THEN Len(lista) ELSE 5)

(* bg.add_task(_enviar_notificaciones_v2, ...) *)
ra_tarea(w) ==
    /\ calls[w].pc = "ra_tarea"
    /\ LET c == calls[w]
       IN  bg_tasks' = Append(bg_tasks,
              [alerta_id |-> c.alerta_id, nombre |-> c.nombre, mensaje |-> c.mensaje,
               tipo_alerta |-> c.req.tipo_alerta, nivel |-> c.nivel,
               cel_usuario |-> c.cel_con, cuidadores |-> c.cuidadores,
               institucionales |-> c.institucionales, comunidad |-> c.comunidad,
               lat |-> c.req.latitud, lon |-> c.req.longitud])
    /\ calls' = [calls EXCEPT ![w].pc = "ra_ack"]
    /\ UNCHANGED <<notAlerta, alertas_panico, respuesta>>

(* The acknowledgement: the handler returns and the response is sent *)
ra_ack(w) ==
    /\ calls[w].pc = "ra_ack"
    /\ LET c == calls[w]
       IN  Return(w, 200,
              [alerta_id |-> c.alerta_id, nivel_emergencia |-> c.nivel,
               cuidadores |-> Len(c.cuidadores),
               institucionales |-> Len(c.institucionales),
               red_comunitaria |-> Len(c.comunidad),
               institucionales_detalle |-> primeros_5(c.institucionales)])
    /\ UNCHANGED <<notAlerta, alertas_panico, bg_tasks>>

recibir_alerta(w) ==
    \/ ra_insert(w)
    \/ ra_contactos(w)
    \/ ra_autorizados(w)
    \/ ra_institucionales(w)
    \/ ra_comunidad(w)
    \/ ra_tarea(w)
    \/ ra_ack(w)

----------------------------------------------------------------------------
(* Alert ingestion against a populated data store *)

CelP == <<3,0,0,5,5,5,0,0,0,1>>
CelQ == <<3,0,0,5,5,5,0,0,0,2>>
CelR == <<3,0,0,5,5,5,0,0,0,3>>

(* INSERT INTO contactos_confianza of agregar_contacto: the celular is     *)
(* stored as the caller wrote it.                                          *)
ContactoRow(usuario_id, nombre, celular, disponible_emergencias, activo) ==
    [usuario_id |-> usuario_id, nombre |-> nombre, celular |-> celular,
     disponible_emergencias |-> disponible_emergencias, activo |-> activo]

AutorizadoRow(celular_cuidado, celular_cuidador, id_persona_cuidador) ==
    [celular_cuidado |-> celular_cuidado, celular_cuidador |-> celular_cuidador,
     id_persona_cuidador |-> id_persona_cuidador]

InstitucionRow(nombre, entidad, celular, tipo, id_persona, latitud, longitud, activo) ==
    [nombre |-> nombre, entidad |-> entidad, celular |-> celular, tipo |-> tipo,
     id_persona |-> id_persona, latitud |-> latitud, longitud |-> longitud,
     activo |-> activo]

InitAlerta ==
    /\ EmptyDb
    /\ reportes_usuario = {}
    /\ tokens_fcm = <<>>
    /\ dispositivos_ble = <<>>
    /\ usuarios_sos = <<UsuarioRow(CelA, "Ana"), UsuarioRow(CelB, "Beto"),
                        UsuarioRow(CelC, "Caro")>>
    /\ contactos_confianza =
          <<ContactoRow(1, "Beto", CelB, TRUE, TRUE),
            ContactoRow(1, "Caro", CelC57, TRUE, TRUE),
            ContactoRow(1, "Beto (trabajo)", CelB, TRUE, TRUE),
            ContactoRow(1, "Elsa", CelE57, TRUE, FALSE),
            ContactoRow(2, "Dora", CelD, TRUE, TRUE)>>
    /\ cuidadores_autorizados =
          <<AutorizadoRow(CelA57, CelB, 11),
            AutorizadoRow(CelA, CelC, 12),
            AutorizadoRow(CelA57, CelD57, 13)>>
    /\ cuidadores_institucionales =
          <<InstitucionRow("Ambulancia 7", "Cruz Roja", CelQ, "ambulancia", 22, 1400, 1, TRUE),
            InstitucionRow("CAI Norte", "Policia Nacional", CelP, "Policia", 21, 500, 1, TRUE),
            InstitucionRow("Estacion 3", "Bomberos", CelR, "bomberos", 23, 1401, 1, TRUE)>>
    /\ ubicaciones_red =
          <<UbicacionRow(CelA, "Ana", 400, 1, TRUE, 0),
            UbicacionRow(CelB, "Beto", 450, 1, TRUE, 0)>>
    /\ alertas_panico = <<>>
    /\ vigilancias = <<>>
    /\ calls = [w \in 1..AlertWorkers |-> Idle]

NextAlerta ==
    \E w \in 1..AlertWorkers :
        \/ ra_nombre(w)
        \/ recibir_alerta(w)

SpecAlerta == InitAlerta /\ [][NextAlerta]_vars

(* The personal circle that the two sources give for a source identity *)
circulo_personal(cel_sin, cel_con) ==
    agregar_no_vistos(agregar_no_vistos(<<>>, contactos_de(cel_sin, cel_con)),
                      autorizados_de(cel_sin, cel_con))

(* C7: an alert submitted with a severity tier outside {1,2,3} is ingested *)
(* exactly as a tier-2 alert with the same input: when it is acknowledged, *)
(* the stored row carries tier 2 and the tier-2 message, the personal and  *)
(* institutional circles handed to the dispatcher are the tier-2 ones (the *)
(* institutions in range when coordinates are given, no community), and    *)
(* the acknowledgement reports tier 2.                                     *)
C7_InvalidTierIsTier2 ==
    [][\A w \in 1..AlertWorkers :
          (ra_ack(w) /\ calls[w].req.nivel_emergencia \notin {1, 2, 3}) =>
             LET c == calls[w]
                 req == c.req
                 row == alertas_panico[c.alerta_id]
                 task == bg_tasks[CHOOSE i \in DOMAIN bg_tasks :
                                     bg_tasks[i].alerta_id = c.alerta_id]
                 inst2 == IF Truthy(req.latitud) /\ Truthy(req.longitud)
                          THEN institucionales_cercanos(req.latitud, req.longitud,
                                                        req.tipo_alerta)
                          ELSE <<>>
             IN  /\ row.nivel_emergencia = 2
                 /\ row.nivel_alerta = "critica"
                 /\ row.mensaje = mensaje_de(req, 2, c.nombre)
                 /\ task.nivel = 2
                 /\ task.mensaje = row.mensaje
                 /\ task.cuidadores = circulo_personal(c.cel_sin, c.cel_con)
                 /\ task.institucionales = inst2
                 /\ task.comunidad = <<>>
                 /\ respuesta'.status = 200
                 /\ respuesta'.result.nivel_emergencia = 2
                 /\ respuesta'.result.institucionales = Len(inst2)
                 /\ respuesta'.result.red_comunitaria = 0]_vars

(* An alert submitted with tier 4 and coordinates is about to be          *)
(* acknowledged, with institutions resolved.                              *)
C7_Witness ==
    \E w \in 1..AlertWorkers :
        /\ calls[w].pc = "ra_ack"
        /\ calls[w].req.nivel_emergencia = 4
        /\ calls[w].req.mensaje = SinMensaje
        /\ calls[w].institucionales # <<>>
        /\ alertas_panico[calls[w].alerta_id].nivel_emergencia = 2

(* C8: every alert ingested at tier 1 has an empty institutional circle    *)
(* and an empty community circle, whatever coordinates came with it and    *)
(* whatever institutions and location pings are stored.                    *)
C8_Tier1PersonalOnly ==
    /\ \A i \in DOMAIN bg_tasks :
          bg_tasks[i].nivel = 1 =>
             bg_tasks[i].institucionales = <<>> /\ bg_tasks[i].comunidad = <<>>
    /\ \A w \in 1..AlertWorkers :
          (calls[w].pc \in {"ra_comunidad", "ra_tarea", "ra_ack"} /\ calls[w].nivel = 1) =>
             calls[w].institucionales = <<>> /\ calls[w].comunidad = <<>>
    /\ (respuesta.op = "recibir_alerta" /\ respuesta.result.nivel_emergencia = 1) =>
          respuesta.result.institucionales = 0 /\ respuesta.result.red_comunitaria = 0

(* A tier-1 alert with coordinates next to an institution and a fresh ping *)
(* has been handed to the dispatcher with its personal circle only.        *)
C8_Witness ==
    \E i \in DOMAIN bg_tasks :
        /\ bg_tasks[i].nivel = 1
        /\ bg_tasks[i].lat = 400
        /\ bg_tasks[i].lon = 1
        /\ bg_tasks[i].cuidadores # <<>>
        /\ institucionales_cercanos(400, 1, bg_tasks[i].tipo_alerta) # <<>>
        /\ buscar_red_comunitaria(400, 1, bg_tasks[i].cel_usuario) # <<>>

(* C9: every alert ingested without coordinates (latitude or longitude     *)
(* absent) has an empty institutional and an empty community circle at     *)
(* every tier, and is still stored and acknowledged with success.          *)
C9_NoCoordinatesDegrades ==
    /\ \A i \in DOMAIN bg_tasks :
          (bg_tasks[i].lat = NULL \/ bg_tasks[i].lon = NULL) =>
             /\ bg_tasks[i].institucionales = <<>>
             /\ bg_tasks[i].comunidad = <<>>
             /\ bg_tasks[i].alerta_id \in DOMAIN alertas_panico
             /\ alertas_panico[bg_tasks[i].alerta_id].nivel_emergencia = bg_tasks[i].nivel
    /\ \A w \in 1..AlertWorkers :
          (/\ calls[w].pc = "ra_ack"
           /\ (calls[w].req.latitud = NULL \/ calls[w].req.longitud = NULL)) =>
             calls[w].institucionales = <<>> /\ calls[w].comunidad = <<>>
    /\ respuesta.op = "recibir_alerta" => respuesta.status = 200

(* A tier-3 alert without coordinates has been acknowledged and handed to  *)
(* the dispatcher.                                                         *)
C9_Witness ==
    /\ respuesta.op = "recibir_alerta"
    /\ respuesta.status = 200
    /\ \E i \in DOMAIN bg_tasks :
          /\ bg_tasks[i].nivel = 3
          /\ bg_tasks[i].lat = NULL
          /\ bg_tasks[i].cuidadores # <<>>
          /\ respuesta.result.alerta_id = bg_tasks[i].alerta_id

(* The identity behind a stored celular: both forms of one number are the  *)
(* same recipient.                                                         *)
identidad(celular) == normalizar_celular(celular).sin

(* C10: in the personal circle of every alert each recipient identity      *)
(* appears exactly once, and a recipient who is both an emergency contact  *)
(* and an authorized caregiver of the source is listed with the contact's  *)
(* name.                                                                   *)
C10_PersonalCircleDeduplicated ==
    \A t \in DOMAIN bg_tasks :
        LET cs == bg_tasks[t].cuidadores
            n == normalizar_celular(bg_tasks[t].cel_usuario)
            contactos == contactos_de(n.sin, n.con)
        IN  /\ \A i, j \in DOMAIN cs :
                  identidad(cs[i].celular) = identidad(cs[j].celular) => i = j
            /\ \A k \in DOMAIN contactos :
                  \E i \in DOMAIN cs :
                      /\ identidad(cs[i].celular) = identidad(contactos[k].celular)
                      /\ cs[i].nombre # "Cuidador"

----------------------------------------------------------------------------
(* POST /red/relay *)

(* fecha_hora > NOW() - INTERVAL '5 minutes' *)
VENTANA_RELAY == 5

DispositivoRow(mac_address, usuario_id, activo) ==
    [mac_address |-> mac_address, usuario_id |-> usuario_id, activo |-> activo]

RelayReqs == [mac_manilla : 1..5, celular_relay : {CelB}, latitud : {400}, longitud : {1}]

(* SELECT usuario_id, nombre_dispositivo FROM dispositivos_ble WHERE       *)
(* mac_address=$1 AND activo=TRUE                                          *)
rl_disp(w) ==
    /\ Free(w)
    /\ Len(alertas_panico) < MaxRelays
    /\ \E req \in RelayReqs :
          LET disp == {d \in DOMAIN dispositivos_ble :
                          /\ dispositivos_ble[d].mac_address = req.mac_manilla
                          /\ dispositivos_ble[d].activo}
          IN  IF disp = {}
              THEN /\ respuesta' = [op |-> "relay_ble", status |-> 404,
                                    result |-> "Dispositivo BLE no registrado"]
                   /\ UNCHANGED calls
              ELSE /\ calls' = [calls EXCEPT ![w] =
                                  [op |-> "relay_ble", pc |-> "rl_usuario", req |-> req,
                                   usuario_id |-> dispositivos_ble[Min(disp)].usuario_id]]
                   /\ UNCHANGED respuesta
    /\ UNCHANGED <<notAlerta, alertas_panico, bg_tasks>>

(* SELECT nombre, celular FROM usuarios_sos WHERE id=$1 *)
rl_usuario(w) ==
    /\ calls[w].pc = "rl_usuario"
    /\ IF calls[w].usuario_id \notin DOMAIN usuarios_sos
       THEN Return(w, 404, "Usuario del dispositivo no encontrado")
       ELSE /\ calls' = [calls EXCEPT ![w] =
                           [op |-> "relay_ble", pc |-> "rl_reciente", req |-> calls[w].req,
                            usuario |-> usuarios_sos[calls[w].usuario_id]]]
            /\ UNCHANGED respuesta
    /\ UNCHANGED <<notAlerta, alertas_panico, bg_tasks>>

(* The rows of SELECT id FROM alertas_panico WHERE celular=$1 AND          *)
(* fuente_alerta='relay' AND fecha_hora > NOW() - INTERVAL '5 minutes'     *)
relay_reciente(celular) ==
    {a \in DOMAIN alertas_panico :
        /\ alertas_panico[a].celular = celular
        /\ alertas_panico[a].fuente_alerta = "relay"
        /\ alertas_panico[a].fecha_hora > now - VENTANA_RELAY}

(* The AlertaRequest that relay_ble builds for recibir_alerta *)
alerta_req_relay(usuario, req) ==
    [celular |-> usuario.celular, nombre |-> usuario.nombre, nivel_emergencia |-> 3,
     tipo_alerta |-> "seguridad", mensaje |-> Msg("relay", usuario.nombre, "", "", now),
     latitud |-> req.latitud, longitud |-> req.longitud, fuente_alerta |-> "relay_ble"]

(* The duplicate check: fetchval gives the id of one of the rows, or the   *)
(* handler goes on into recibir_alerta.                                    *)
rl_reciente(w) ==
    /\ calls[w].pc = "rl_reciente"
    /\ LET reciente == relay_reciente(calls[w].usuario.celular)
       IN  IF reciente # {}
           THEN \E id \in reciente :
                   Return(w, 200, [alerta_id |-> id, mensaje |-> "Alerta ya reportada por relay"])
           ELSE /\ calls' = [calls EXCEPT ![w] =
                               alerta_en_curso("relay_ble",
                                               alerta_req_relay(calls[w].usuario, calls[w].req))]
                /\ UNCHANGED respuesta
    /\ UNCHANGED <<notAlerta, alertas_panico, bg_tasks>>

relay_ble(w) ==
    \/ rl_disp(w)
    \/ rl_usuario(w)
    \/ rl_reciente(w)
    \/ recibir_alerta(w)

(* A 7-digit number, as a caller may register it *)
CelT == <<6,0,1,2,3,4,5>>

(* Ana and Teo registered through registrar_usuario; Lia's row is a        *)
(* historic one whose celular has no country prefix.  Bracelets 1..3 are   *)
(* theirs, bracelet 4 is inactive, bracelet 5 belongs to a missing user.   *)
InitRelay ==
    /\ EmptyDb
    /\ reportes_usuario = {}
    /\ tokens_fcm = <<>>
    /\ usuarios_sos = <<UsuarioRow(CelA, "Ana"),
                        [UsuarioRow(CelD, "Lia") EXCEPT !.celular = CelD],
                        UsuarioRow(CelT, "Teo")>>
    /\ dispositivos_ble = <<DispositivoRow(1, 1, TRUE), DispositivoRow(2, 2, TRUE),
                            DispositivoRow(3, 3, TRUE), DispositivoRow(4, 1, FALSE),
                            DispositivoRow(5, 9, TRUE)>>
    /\ contactos_confianza = <<ContactoRow(1, "Beto", CelB, TRUE, TRUE)>>
    /\ cuidadores_autorizados = <<AutorizadoRow(CelD, CelC, 12)>>
    /\ cuidadores_institucionales =
          <<InstitucionRow("CAI Norte", "Policia Nacional", CelP, "policia", 21, 500, 1, TRUE)>>
    /\ ubicaciones_red = <<UbicacionRow(CelB, "Beto", 450, 1, TRUE, 0)>>
    /\ alertas_panico = <<>>
    /\ vigilancias = <<>>
    /\ calls = [w \in 1..RelayWorkers |-> Idle]

NextRelay ==
    \/ Tick(RelayMaxTime)
    \/ \E w \in 1..RelayWorkers : relay_ble(w)

SpecRelay == InitRelay /\ [][NextRelay]_vars

(* The relay-originated alerts stored for the identity behind a celular,   *)
(* with their age in minutes                                               *)
RelaysDe(celular) ==
    {a \in DOMAIN alertas_panico :
        /\ alertas_panico[a].fuente_alerta = "relay"
        /\ identidad(alertas_panico[a].celular) = identidad(celular)}

(* C6: when the duplicate check of a relay request runs less than 5        *)
(* minutes after a relay-originated alert of the same source identity, the *)
(* request returns the id of such an alert and does not go on to create a  *)
(* row; when every relay-originated alert of that identity is more than 5  *)
(* minutes old, the request goes on to create a new alert.                 *)
C6_RelayDedupWindow ==
    [][\A w \in 1..RelayWorkers :
          rl_reciente(w) =>
             LET cel == calls[w].usuario.celular
                 nuevas == {a \in RelaysDe(cel) :
                               now - alertas_panico[a].fecha_hora < VENTANA_RELAY}
                 viejas == {a \in RelaysDe(cel) :
                               now - alertas_panico[a].fecha_hora > VENTANA_RELAY}
             IN  /\ nuevas # {} =>
                       /\ Free(w)'
                       /\ respuesta'.status = 200
                       /\ respuesta'.result.alerta_id \in nuevas
                 /\ (nuevas = {} /\ viejas = RelaysDe(cel)) =>
                       calls'[w].pc = "ra_insert"]_vars

----------------------------------------------------------------------------
(* The dispatcher: _enviar_notificaciones_v2, run as a background task     *)
(* once the response of the handler that queued it has been sent.          *)

(* What the dispatcher never writes *)
notEnvio == <<now, usuarios_sos, dbStatic, ubicaciones_red, alertas_panico,
              respuestas_institucionales, reportes_usuario, vigilancias,
              confirmaciones_vigilancia, bg_tasks, tareas_ia, calls, respuesta>>

(* todos: the three lists in order, each entry with its rol_dest *)
con_rol(lista, rol_dest) == [k \in DOMAIN lista |-> [dest |-> lista[k], rol_dest |-> rol_dest]]

todos_comunidad_primero(task) ==
    con_rol(task.comunidad, "comunidad") \o con_rol(task.cuidadores, "cuidador")
        \o con_rol(task.institucionales, "institucional")

todos(task) ==
    con_rol(task.cuidadores, "cuidador") \o con_rol(task.institucionales, "institucional")
        \o con_rol(task.comunidad, "comunidad")

(* The background task at position i runs only after the response of the   *)
(* handler that queued it has been sent.                                   *)
respondida_sin_espera(i) == TRUE

respondida(i) ==
    \A w \in DOMAIN calls :
        ~(calls[w].pc = "ra_ack" /\ calls[w].alerta_id = bg_tasks[i].alerta_id)

(* The dispatches that have started and not ended *)
en_curso == {i \in DOMAIN envios : envios[i].pc \notin {"fin", "abortado"}}

(* The task starts: todos is built *)
en_inicio(i) ==
    /\ i \in DOMAIN bg_tasks
    /\ i \notin DOMAIN envios
    /\ Cardinality(en_curso) < MaxEnCurso
    /\ respondida(i)
    /\ envios' = envios @@ (i :> [pc |-> IF todos(bg_tasks[i]) = <<>> THEN "fin" ELSE "en_token",
                                  k |-> 1, mensaje |-> bg_tasks[i].mensaje,
                                  token |-> "", ok |-> FALSE])
    /\ UNCHANGED <<notEnvio, tokens_fcm, alertas_enviadas, fcm>>

(* tk = await buscar_token(...), and the message chosen by rol_dest: a     *)
(* community recipient replaces the task's mensaje variable.               *)
en_token(i) ==
    /\ i \in DOMAIN envios
    /\ envios[i].pc = "en_token"
    /\ LET task == bg_tasks[i]
           d == todos(task)[envios[i].k]
           n == normalizar_celular(d.dest.celular)
       IN  \E token \in buscar_token(n.sin, n.con, d.dest.id_persona) :
              envios' = [envios EXCEPT
                 ![i].token = token,
                 ![i].ok = FALSE,
                 ![i].mensaje = IF d.rol_dest = "comunidad"
                                THEN Msg("comunidad", task.nombre, "", "", d.dest.distancia_km)
                                ELSE @,
                 ![i].pc = IF token # "" THEN "en_push" ELSE "en_insert"]
    /\ UNCHANGED <<notEnvio, tokens_fcm, alertas_enviadas, fcm>>

(* result = await enviar_push(token, titulo, mensaje, data_push).  An      *)
(* exception of the HTTP client is caught nowhere: it ends the task.       *)
en_push(i) ==
    /\ i \in DOMAIN envios
    /\ envios[i].pc = "en_push"
    /\ LET task == bg_tasks[i]
           d == todos(task)[envios[i].k]
       IN  \E resultado \in ResultadosPush :
              /\ fcm' = Append(fcm, [alerta_id |-> task.alerta_id, k |-> envios[i].k,
                                     celular |-> d.dest.celular, token |-> envios[i].token,
                                     cuerpo |-> envios[i].mensaje, resultado |-> resultado,
                                     tokens |-> Len(tokens_fcm)])
              /\ envios' = [envios EXCEPT
                    ![i].ok = (resultado = "ok"),
                    ![i].pc = IF resultado = "timeout" THEN "abortado"
                              ELSE IF resultado = "UNREGISTERED" THEN "en_invalidar"
                              ELSE "en_insert"]
    /\ UNCHANGED <<notEnvio, tokens_fcm, alertas_enviadas>>

(* UPDATE tokens_fcm SET valido=FALSE ... WHERE celular IN ($1,$2) *)
en_invalidar(i) ==
    /\ i \in DOMAIN envios
    /\ envios[i].pc = "en_invalidar"
    /\ LET d == todos(bg_tasks[i])[envios[i].k]
           n == normalizar_celular(d.dest.celular)
       IN  tokens_fcm' = [t \in DOMAIN tokens_fcm |->
                             IF tokens_fcm[t].celular \in {n.sin, n.con}
                             THEN [tokens_fcm[t] EXCEPT !.valido = FALSE]
                             ELSE tokens_fcm[t]]
    /\ envios' = [envios EXCEPT ![i].pc = "en_insert"]
    /\ UNCHANGED <<notEnvio, alertas_enviadas, fcm>>

(* INSERT INTO alertas_enviadas, and on to the next entry of todos *)
en_insert(i) ==
    /\ i \in DOMAIN envios
    /\ envios[i].pc = "en_insert"
    /\ LET task == bg_tasks[i]
           e == envios[i]
           d == todos(task)[e.k]
       IN  /\ alertas_enviadas' = Append(alertas_enviadas,
                 [alerta_id |-> task.alerta_id, celular_usuario |-> task.cel_usuario,
                  celular_cuidador_institucional |-> d.dest.celular,
                  nombre_cuidador_institucional |-> d.dest.nombre,
                  token |-> e.token, mensaje |-> e.mensaje,
                  estado_envio |-> IF e.ok THEN "enviado" ELSE "fallido",
                  rol_destinatario |-> d.rol_dest,
                  receptor_destino |-> IF d.rol_dest = "institucional" THEN d.dest.entidad
                                       ELSE d.rol_dest])
           /\ envios' = [envios EXCEPT
                 ![i].k = e.k + 1,
                 ![i].pc = IF e.k < Len(todos(task)) THEN "en_token" ELSE "fin"]
    /\ UNCHANGED <<notEnvio, tokens_fcm, fcm>>

enviar_notificaciones_v2(i) ==
    \/ en_inicio(i)
    \/ en_token(i)
    \/ en_push(i)
    \/ en_invalidar(i)
    \/ en_insert(i)

----------------------------------------------------------------------------
(* Alerts of Ana and their dispatches *)

DispReqs == {AlertaReq("", 3, "seguridad", SinMensaje, 400, 1)}

(* The request arrives, as in ra_nombre *)
ra_nombre_envio(w) ==
    /\ Free(w)
    /\ Len(alertas_panico) < MaxEnvios
    /\ \E req \in DispReqs : calls' = [calls EXCEPT ![w] = alerta_en_curso("recibir_alerta", req)]
    /\ UNCHANGED <<notAlerta, alertas_panico, bg_tasks, respuesta>>

(* Ana's circles: Beto, a contact whose token is registered under his      *)
(* number; Caro, an authorized caregiver whose token is registered under   *)
(* her id_persona and another number; the CAI and Dora, a neighbour, have  *)
(* no token.                                                               *)
InitEnvio ==
    /\ EmptyDb
    /\ reportes_usuario = {}
    /\ usuarios_sos = <<UsuarioRow(CelA, "Ana"), UsuarioRow(CelB, "Beto"),
                        UsuarioRow(CelD, "Dora")>>
    /\ dispositivos_ble = <<>>
    /\ contactos_confianza = <<ContactoRow(1, "Beto", CelB, TRUE, TRUE)>>
    /\ cuidadores_autorizados = <<AutorizadoRow(CelA57, CelC, 12)>>
    /\ cuidadores_institucionales =
          <<InstitucionRow("CAI Norte", "Policia Nacional", CelP, "policia", 21, 500, 1, TRUE)>>
    /\ ubicaciones_red = <<UbicacionRow(CelD, "Dora", 450, 1, TRUE, 0)>>
    /\ tokens_fcm = <<TokenRow(NULL, CelB, "tk_beto", 0), TokenRow(12, CelE57, "tk_caro", 0)>>
    /\ alertas_panico = <<>>
    /\ vigilancias = <<>>
    /\ calls = [w \in 1..DispWorkers |-> Idle]

NextEnvio ==
    \/ \E w \in 1..DispWorkers :
          \/ ra_nombre_envio(w)
          \/ recibir_alerta(w)
    \/ \E i \in DOMAIN bg_tasks : enviar_notificaciones_v2(i)

SpecEnvio == InitEnvio /\ [][NextEnvio]_vars

(* The delivery records of an alert, in insertion order *)
RegistrosDe(alerta_id) ==
    SelectSeq(alertas_enviadas, LAMBDA r : r.alerta_id = alerta_id)

(* The sends that the transport received for entry k of an alert's todos *)
IntentosDe(alerta_id, k) ==
    {x \in DOMAIN fcm : fcm[x].alerta_id = alerta_id /\ fcm[x].k = k}

(* C11: once the transport has rejected a token of recipient R as          *)
(* unregistered and the dispatch has got past that rejection, a dispatch   *)
(* that looks up R's token afterwards, no tokens_fcm row having been added *)
(* for R since the rejected send, finds no token, so that it makes no send *)
(* for R and records 'fallido' with an empty token.                        *)
C11_RejectedAddressNotReused ==
    [][\A i \in DOMAIN envios :
          en_token(i) =>
             LET d == todos(bg_tasks[i])[envios[i].k]
                 rechazos == {x \in DOMAIN fcm :
                                 /\ fcm[x].resultado = "UNREGISTERED"
                                 /\ identidad(fcm[x].celular) = identidad(d.dest.celular)
                                 /\ fcm[x].alerta_id # bg_tasks[i].alerta_id
                                 /\ \A j \in DOMAIN envios :
                                       bg_tasks[j].alerta_id = fcm[x].alerta_id =>
                                          ~(envios[j].pc = "en_invalidar" /\ envios[j].k = fcm[x].k)
                                 /\ \A t \in DOMAIN tokens_fcm :
                                       t > fcm[x].tokens =>
                                          identidad(tokens_fcm[t].celular) # identidad(d.dest.celular)}
             IN  rechazos # {} =>
                    /\ envios'[i].token = ""
                    /\ envios'[i].pc = "en_insert"]_vars

(* The dispatches that have run to their end or were ended by an exception *)
terminados == {i \in DOMAIN envios : envios[i].pc \in {"fin", "abortado"}}

(* C12: when the dispatch of an alert has ended, every entry of todos has  *)
(* exactly one delivery record, in order, 'fallido' with an empty token    *)
(* when no token was found; and no entry is ever sent more than once.      *)
C12_OneRecordPerRecipient ==
    /\ \A i \in DOMAIN envios :
          \A k \in DOMAIN todos(bg_tasks[i]) :
              Cardinality(IntentosDe(bg_tasks[i].alerta_id, k)) <= 1
    /\ \A i \in terminados :
          LET dests == todos(bg_tasks[i])
              regs == RegistrosDe(bg_tasks[i].alerta_id)
          IN  /\ Len(regs) = Len(dests)
              /\ \A k \in DOMAIN regs :
                    /\ regs[k].celular_cuidador_institucional = dests[k].dest.celular
                    /\ regs[k].estado_envio \in {"enviado", "fallido"}
                    /\ regs[k].token = "" => regs[k].estado_envio = "fallido"

(* C13: when the dispatch of an alert has ended and the send for one entry *)
(* of todos failed (an HTTP error, or an exception or timeout of the HTTP  *)
(* client), that entry has a record 'fallido' and every other entry of     *)
(* todos has its record as well.                                           *)
C13_FailureIsPerRecipient ==
    \A i \in terminados :
        \A x \in DOMAIN fcm :
            (fcm[x].alerta_id = bg_tasks[i].alerta_id /\ fcm[x].resultado # "ok") =>
                LET regs == RegistrosDe(bg_tasks[i].alerta_id)
                IN  /\ \A k \in DOMAIN todos(bg_tasks[i]) : k \in DOMAIN regs
                    /\ regs[fcm[x].k].estado_envio = "fallido"

(* The handler of alert a is still in flight *)
EnIngesta(a) ==
    \E w \in DOMAIN calls :
        /\ calls[w].pc \in {"ra_contactos", "ra_autorizados", "ra_institucionales",
                            "ra_comunidad", "ra_tarea", "ra_ack"}
        /\ calls[w].alerta_id = a

(* C14: an alert's row is stored before its circles are resolved, the      *)
(* circles before the task is queued, and the task before the              *)
(* acknowledgement; every send and every delivery record belongs to an     *)
(* alert whose acknowledgement has been returned, and a handler that is    *)
(* about to acknowledge can always do so, whatever the dispatcher does.    *)
C14_AckBeforeDispatch ==
    /\ \A a \in DOMAIN alertas_panico :
          EnIngesta(a) => /\ \A x \in DOMAIN fcm : fcm[x].alerta_id # a
                          /\ RegistrosDe(a) = <<>>
                          /\ \A i \in DOMAIN envios : bg_tasks[i].alerta_id # a
    /\ \A i \in DOMAIN bg_tasks : bg_tasks[i].alerta_id \in DOMAIN alertas_panico
    /\ \A w \in DOMAIN calls :
          /\ calls[w].pc \in {"ra_contactos", "ra_autorizados", "ra_institucionales",
                              "ra_comunidad", "ra_tarea", "ra_ack"}
                => calls[w].alerta_id \in DOMAIN alertas_panico
          /\ calls[w].pc = "ra_ack"
                => /\ \E i \in DOMAIN bg_tasks : bg_tasks[i].alerta_id = calls[w].alerta_id
                   /\ ENABLED ra_ack(w)
          /\ calls[w].pc \in {"ra_insert", "ra_contactos", "ra_autorizados",
                              "ra_institucionales", "ra_comunidad", "ra_tarea"}
                => \A i \in DOMAIN bg_tasks : bg_tasks[i].alerta_id # calls[w].alerta_id

(* Alert 2 is about to be acknowledged while the dispatch of alert 1 has   *)
(* sent and recorded.                                                      *)
C14_Witness ==
    /\ \E w \in DOMAIN calls : calls[w].pc = "ra_ack" /\ calls[w].alerta_id = 2
    /\ \E x \in DOMAIN fcm : fcm[x].alerta_id = 1
    /\ RegistrosDe(1) # <<>>
    /\ 1 \in en_curso

----------------------------------------------------------------------------
(* POST /red/ubicacion *)

(* What actualizar_ubicacion never writes *)
notUbicacion == <<now, usuarios_sos, dbStatic, alertas_panico, respuestas_institucionales,
                  reportes_usuario, vigilancias, confirmaciones_vigilancia, bg_tasks,
                  dispatcher>>

UbicacionReqs == [celular : {CelA, CelE57}, latitud : {450}, longitud : {1},
                  disponible : BOOLEAN]

(* SELECT id, nombre FROM usuarios_sos WHERE celular IN ($1,$2) LIMIT 1 *)
au_usuario(w) ==
    /\ Free(w)
    /\ \E req \in UbicacionReqs :
          LET n == normalizar_celular(req.celular)
              usr == {u \in DOMAIN usuarios_sos : usuarios_sos[u].celular \in {n.sin, n.con}}
          IN  calls' = [calls EXCEPT ![w] =
                          [op |-> "actualizar_ubicacion", pc |-> "au_existe", req |-> req,
                           cc |-> n.con,
                           nombre |-> IF usr = {} THEN "" ELSE usuarios_sos[Min(usr)].nombre]]
    /\ UNCHANGED <<notUbicacion, ubicaciones_red, respuesta>>

(* SELECT id FROM ubicaciones_red WHERE celular=$1 *)
au_existe(w) ==
    /\ calls[w].pc = "au_existe"
    /\ calls' = [calls EXCEPT ![w].pc =
                    IF \E i \in DOMAIN ubicaciones_red : ubicaciones_red[i].celular = calls[w].cc
                    THEN "au_update" ELSE "au_insert"]
    /\ UNCHANGED <<notUbicacion, ubicaciones_red, respuesta>>

(* UPDATE ubicaciones_red SET latitud=$1, longitud=$2, disponible=$3,      *)
(* actualizado_at=NOW() WHERE celular=$4                                   *)
au_update(w) ==
    /\ calls[w].pc = "au_update"
    /\ LET c == calls[w]
       IN  ubicaciones_red' =
              [i \in DOMAIN ubicaciones_red |->
                  IF ubicaciones_red[i].celular = c.cc
                  THEN [ubicaciones_red[i] EXCEPT !.latitud = c.req.latitud,
                                                  !.longitud = c.req.longitud,
                                                  !.disponible = c.req.disponible,
                                                  !.actualizado_at = now]
                  ELSE ubicaciones_red[i]]
    /\ Return(w, 200, "success")
    /\ UNCHANGED notUbicacion

(* INSERT INTO ubicaciones_red (...); celular is UNIQUE *)
au_insert(w) ==
    /\ calls[w].pc = "au_insert"
    /\ LET c == calls[w]
       IN  IF \E i \in DOMAIN ubicaciones_red : ubicaciones_red[i].celular = c.cc
           THEN /\ Return(w, 500, "unique_violation")
                /\ UNCHANGED ubicaciones_red
           ELSE /\ ubicaciones_red' = Append(ubicaciones_red,
                      [celular |-> c.cc, nombre |-> c.nombre, latitud |-> c.req.latitud,
                       longitud |-> c.req.longitud, disponible |-> c.req.disponible,
                       actualizado_at |-> now])
                /\ Return(w, 200, "success")
    /\ UNCHANGED notUbicacion

actualizar_ubicacion(w) ==
    \/ au_usuario(w)
    \/ au_existe(w)
    \/ au_update(w)
    \/ au_insert(w)

----------------------------------------------------------------------------
(* The community network around Beto's alerts, while Ana is reported and   *)
(* keeps sending her position.                                             *)

RedReqs == {[AlertaReq("", 3, "seguridad", SinMensaje, 400, 1) EXCEPT !.celular = CelB]}

(* The request arrives, as in ra_nombre *)
ra_nombre_red(w) ==
    /\ Free(w)
    /\ Len(alertas_panico) < MaxAlertasRed
    /\ \E req \in RedReqs : calls' = [calls EXCEPT ![w] = alerta_en_curso("recibir_alerta", req)]
    /\ UNCHANGED <<notAlerta, alertas_panico, bg_tasks, respuesta>>

(* INSERT INTO reportes_usuario of reportar_usuario *)
ReporteRow(celular_reportado, celular_reporta) ==
    [celular_reportado |-> normalizar_celular(celular_reportado).con,
     celular_reporta |-> normalizar_celular(celular_reporta).con]

(* Ana's row in usuarios_sos is a historic one, its celular without the    *)
(* country prefix; two persons have reported her already.  Pings: Ana 50 m *)
(* from the alerts, Beto (their source) on the spot, Caro exactly 1 km     *)
(* away, Dora 1 m further, a ping 29 minutes old and one 31 minutes old.   *)
InitRed ==
    /\ EmptyDb
    /\ tokens_fcm = <<>>
    /\ dispositivos_ble = <<>>
    /\ contactos_confianza = <<>>
    /\ cuidadores_autorizados = <<>>
    /\ cuidadores_institucionales = <<>>
    /\ usuarios_sos = <<[UsuarioRow(CelA, "Ana") EXCEPT !.celular = CelA],
                        UsuarioRow(CelB, "Beto"), UsuarioRow(CelC, "Caro")>>
    /\ reportes_usuario = {ReporteRow(CelA, CelC), ReporteRow(CelA, CelD)}
    /\ ubicaciones_red =
          <<UbicacionRow(CelA, "Ana", 450, 1, TRUE, 0),
            UbicacionRow(CelB, "Beto", 400, 1, TRUE, 0),
            UbicacionRow(CelC, "Caro", 1400, 1, TRUE, 0),
            UbicacionRow(CelD, "", 1401, 1, TRUE, 0),
            UbicacionRow(CelP, "", 300, 1, TRUE, -29),
            UbicacionRow(CelQ, "", 350, 1, TRUE, -31),
            UbicacionRow(CelR, "", 380, 1, FALSE, 0)>>
    /\ alertas_panico = <<>>
    /\ vigilancias = <<>>
    /\ calls = [w \in 1..RedWorkers |-> Idle]

NextRed ==
    \/ Tick(RedMaxTime)
    \/ \E w \in 1..RedWorkers :
          \/ ra_nombre_red(w)
          \/ recibir_alerta(w)
          \/ reportar_usuario(w)
          \/ actualizar_ubicacion(w)

SpecRed == InitRed /\ [][NextRed]_vars

(* The person behind a celular is blocked *)
PersonaBloqueada(celular) ==
    \E u \in DOMAIN usuarios_sos :
        /\ identidad(usuarios_sos[u].celular) = identidad(celular)
        /\ usuarios_sos[u].bloqueado

(* C15: when the community circle of a tier-3 alert with coordinates is    *)
(* resolved, every member has a ping that is available, at most 30 minutes *)
(* old and at most 1 km from the alert, is not the alert's source and is   *)
(* not a blocked person, and the circle is in ascending order of distance. *)
C15_CommunityCircleMembers ==
    [][\A w \in DOMAIN calls :
          (ra_comunidad(w) /\ calls[w].nivel = 3
              /\ Truthy(calls[w].req.latitud) /\ Truthy(calls[w].req.longitud)) =>
             LET c == calls[w]
                 com == calls'[w].comunidad
             IN  /\ \A m \in DOMAIN com :
                       /\ \E p \in DOMAIN ubicaciones_red :
                             /\ ubicaciones_red[p].celular = com[m].celular
                             /\ ubicaciones_red[p].disponible
                             /\ now - ubicaciones_red[p].actualizado_at <= FRESCURA_MIN
                             /\ distancia_m(c.req.latitud, c.req.longitud,
                                            ubicaciones_red[p].latitud,
                                            ubicaciones_red[p].longitud) <= RADIO_M
                       /\ identidad(com[m].celular) # identidad(c.cel_con)
                       /\ ~PersonaBloqueada(com[m].celular)
                 /\ \A m1, m2 \in DOMAIN com :
                       m1 < m2 => com[m1].distancia_km <= com[m2].distancia_km]_vars

(* C16: a person blocked by the report quorum is in the community circle   *)
(* of no alert stored after the time of the block, whatever location       *)
(* updates came for that person in between.                                *)
C16_BlockedStaysOut ==
    \A t \in DOMAIN bg_tasks :
        \A u \in DOMAIN usuarios_sos :
            (/\ usuarios_sos[u].bloqueado
             /\ usuarios_sos[u].fecha_bloqueo # NULL
             /\ usuarios_sos[u].fecha_bloqueo < alertas_panico[bg_tasks[t].alerta_id].fecha_hora) =>
                \A m \in DOMAIN bg_tasks[t].comunidad :
                    identidad(bg_tasks[t].comunidad[m].celular)
                        # identidad(usuarios_sos[u].celular)

----------------------------------------------------------------------------
(* The radius queries: the circles of POST /alerta, GET /red/cercanos and  *)
(* GET /vigilancia/activas                                                 *)

(* What the two GET handlers never write *)
notConsulta == <<now, usuarios_sos, dbStatic, ubicaciones_red, alertas_panico,
                 respuestas_institucionales, reportes_usuario, vigilancias,
                 confirmaciones_vigilancia, bg_tasks, dispatcher>>

(* The query parameters latitud, longitud *)
ConsultaReqs == [latitud : {0, 400}, longitud : {1}]

(* SELECT ... FROM ubicaciones_red WHERE disponible = TRUE AND             *)
(* actualizado_at > NOW() - INTERVAL '30 minutes', and the counting loop   *)
cercanos_1km(latitud, longitud) ==
    LET ok(r) == /\ r.disponible
                 /\ r.actualizado_at > now - FRESCURA_MIN
                 /\ dentro_del_radio(distancia_m(latitud, longitud, r.latitud, r.longitud))
    IN  Len(SelectSeq(ubicaciones_red, ok))

(* GET /red/cercanos: the query and the loop *)
vc_consulta(w) ==
    /\ Free(w)
    /\ \E req \in ConsultaReqs :
          calls' = [calls EXCEPT ![w] = [op |-> "ver_cercanos", pc |-> "vc_return", req |-> req,
                                         cercanos |-> cercanos_1km(req.latitud, req.longitud)]]
    /\ UNCHANGED <<notConsulta, respuesta>>

(* return {'success': True, 'cercanos_1km': cercanos} *)
vc_return(w) ==
    /\ calls[w].pc = "vc_return"
    /\ Return(w, 200, [success |-> TRUE, cercanos_1km |-> calls[w].cercanos])
    /\ UNCHANGED notConsulta

ver_cercanos(w) ==
    \/ vc_consulta(w)
    \/ vc_return(w)

(* AND fecha > NOW() - INTERVAL '2 hours' *)
VIGENCIA_MIN == 120

(* SELECT ... FROM vigilancias WHERE estado = 'activa' AND fecha > NOW() - *)
(* INTERVAL '2 hours', the loop and the sort                               *)
vigilancias_cercanas(latitud, longitud) ==
    LET ids == SelectSeq([i \in DOMAIN vigilancias |-> i],
                         LAMBDA i : /\ vigilancias[i].estado = "activa"
                                    /\ vigilancias[i].fecha > now - VIGENCIA_MIN
                                    /\ dentro_del_radio(distancia_m(latitud, longitud,
                                                                    vigilancias[i].latitud,
                                                                    vigilancias[i].longitud)))
    IN  ordenar_por_distancia(
           [k \in DOMAIN ids |->
               [id |-> ids[k], celular |-> vigilancias[ids[k]].celular,
                nombre |-> vigilancias[ids[k]].nombre,
                distancia_km |-> redondear_2(distancia_m(latitud, longitud,
                                                         vigilancias[ids[k]].latitud,
                                                         vigilancias[ids[k]].longitud))]])

(* The body of vigilancias_activas: the query, the loop and the sort.  The *)
(* route is declared after /vigilancia/{vigilancia_id}.                    *)
va_consulta(w) ==
    /\ Free(w)
    /\ \E req \in ConsultaReqs :
          calls' = [calls EXCEPT ![w] = [op |-> "vigilancias_activas", pc |-> "va_return",
                                         req |-> req,
                                         cercanas |-> vigilancias_cercanas(req.latitud,
                                                                           req.longitud)]]
    /\ UNCHANGED <<notConsulta, respuesta>>

(* return {'success': True, 'vigilancias': cercanas, 'total': len(cercanas)} *)
va_return(w) ==
    /\ calls[w].pc = "va_return"
    /\ Return(w, 200, [success |-> TRUE, vigilancias |-> calls[w].cercanas,
                       total |-> Len(calls[w].cercanas)])
    /\ UNCHANGED notConsulta

vigilancias_activas(w) ==
    \/ va_consulta(w)
    \/ va_return(w)

(* Alerts of Ana at tiers 2 and 3: of every classification the type rule   *)
(* names and of one it does not from position 400, and security alerts     *)
(* from a position with latitude 0.                                        *)
GeoReqs ==
    {AlertaReq("", niv, tipo, SinMensaje, 400, 1) :
        niv \in {2, 3},
        tipo \in {"seguridad", "violencia", "salud", "emergencia", "caida", "incendio",
                  "robo_armado"}}
    \cup {AlertaReq("", niv, "seguridad", SinMensaje, 0, 1) : niv \in {2, 3}}

(* The request arrives, as in ra_nombre *)
ra_nombre_geo(w) ==
    /\ Free(w)
    /\ Len(alertas_panico) < MaxAlertas
    /\ \E req \in GeoReqs : calls' = [calls EXCEPT ![w] = alerta_en_curso("recibir_alerta", req)]
    /\ UNCHANGED <<notAlerta, alertas_panico, bg_tasks, respuesta>>

(* Institutions, pings and vigilance reports on a line: at the first alert *)
(* position (400), exactly 1 km from it (1400) and one metre further       *)
(* (1401), and in between; an inactive and an unlocated institution, a     *)
(* stale and an unavailable ping, a stale and a closed vigilance report.   *)
InitGeo ==
    /\ EmptyDb
    /\ reportes_usuario = {}
    /\ tokens_fcm = <<>>
    /\ dispositivos_ble = <<>>
    /\ usuarios_sos = <<UsuarioRow(CelA, "Ana"), UsuarioRow(CelB, "Beto"),
                        UsuarioRow(CelC, "Caro")>>
    /\ contactos_confianza = <<ContactoRow(1, "Beto", CelB, TRUE, TRUE)>>
    /\ cuidadores_autorizados = <<>>
    /\ cuidadores_institucionales =
          <<InstitucionRow("Vigilancia Sur", "Seguridad SAS", CelQ, "seguridad", 24, 1400, 1, TRUE),
            InstitucionRow("CAI Norte", "Policia Nacional", CelP, "Policia", 21, 400, 1, TRUE),
            InstitucionRow("CAI Lejos", "Policia Nacional", CelP, "policia", 25, 1401, 1, TRUE),
            InstitucionRow("Estacion 3", "Bomberos", CelR, "bomberos", 23, 900, 1, TRUE),
            InstitucionRow("Ambulancia 7", "Cruz Roja", CelQ, "ambulancia", 22, 700, 1, TRUE),
            InstitucionRow("Junta", "Junta de Accion", CelT, "", 26, 600, 1, TRUE),
            InstitucionRow("CAI Viejo", "Policia Nacional", CelP, "policia", 27, 450, 1, FALSE),
            InstitucionRow("CAI Movil", "Policia Nacional", CelP, "policia", 28, NULL, NULL, TRUE)>>
    /\ ubicaciones_red =
          <<UbicacionRow(CelC, "Caro", 1400, 1, TRUE, 0),
            UbicacionRow(CelA, "Ana", 400, 1, TRUE, 0),
            UbicacionRow(CelB, "Beto", 400, 1, TRUE, 0),
            UbicacionRow(CelD, "", 1401, 1, TRUE, 0),
            UbicacionRow(CelP, "", 500, 1, TRUE, -31),
            UbicacionRow(CelR, "", 450, 1, FALSE, 0)>>
    /\ alertas_panico = <<>>
    /\ vigilancias =
          <<VigilanciaRow(CelC, "Caro", "merodeo", 1400, 1),
            VigilanciaRow(CelB, "Beto", "merodeo", 400, 1),
            VigilanciaRow(CelD, "Vecino", "merodeo", 1401, 1),
            [VigilanciaRow(CelD, "Vecino", "ruido", 500, 1) EXCEPT !.fecha = -121],
            [VigilanciaRow(CelD, "Vecino", "moto", 450, 1) EXCEPT !.estado = "escalada"]>>
    /\ calls = [w \in 1..AlertWorkers |-> Idle]

NextGeo ==
    \E w \in 1..AlertWorkers :
        \/ ra_nombre_geo(w)
        \/ recibir_alerta(w)
        \/ ver_cercanos(w)
        \/ vigilancias_activas(w)

SpecGeo == InitGeo /\ [][NextGeo]_vars

(* C17: the institutional circle of a tier-3 alert with coordinates and    *)
(* classification "robo_armado" holds police-typed and ambulance-typed     *)
(* institutions only; an institution of any other type, a fire station for *)
(* example, is not in it.                                                  *)
C17_ArmedRobberyCircle ==
    \A t \in DOMAIN bg_tasks :
        (/\ bg_tasks[t].tipo_alerta = "robo_armado"
         /\ bg_tasks[t].nivel = 3
         /\ bg_tasks[t].lat # NULL
         /\ bg_tasks[t].lon # NULL) =>
            \A m \in DOMAIN bg_tasks[t].institucionales :
                minusculas(bg_tasks[t].institucionales[m].tipo) \in {"policia", "ambulancia"}

(* The type rule as the classification of the alert states it *)
TiposAdmitidos(tipo_alerta) ==
    IF tipo_alerta \in {"seguridad", "violencia"} THEN {"policia", "seguridad", ""}
    ELSE IF tipo_alerta = "salud" THEN {"ambulancia", "salud", ""}
    ELSE {"policia", "seguridad", "ambulancia", "salud", "bomberos", "emergencia", ""}

(* The active located institutions within 1 km of a position whose type is *)
(* admitted for a classification, by name                                  *)
InstitucionesEsperadas(lat, lon, tipo_alerta) ==
    {cuidadores_institucionales[i].nombre : i \in
        {j \in DOMAIN cuidadores_institucionales :
            /\ cuidadores_institucionales[j].activo
            /\ cuidadores_institucionales[j].latitud # NULL
            /\ cuidadores_institucionales[j].longitud # NULL
            /\ distancia_m(lat, lon, cuidadores_institucionales[j].latitud,
                           cuidadores_institucionales[j].longitud) <= 1000
            /\ minusculas(cuidadores_institucionales[j].tipo) \in TiposAdmitidos(tipo_alerta)}}

(* C18: the institutional circle of every alert at tier 2 or 3 with        *)
(* coordinates and a security, violence, health, emergency or fall         *)
(* classification holds exactly the active located institutions within     *)
(* 1 km whose type is admitted for the classification, in ascending order  *)
(* of distance.                                                            *)
C18_InstitutionalCircleExact ==
    \A t \in DOMAIN bg_tasks :
        (/\ bg_tasks[t].nivel \in {2, 3}
         /\ bg_tasks[t].lat # NULL
         /\ bg_tasks[t].lon # NULL
         /\ bg_tasks[t].tipo_alerta \in {"seguridad", "violencia", "salud", "emergencia", "caida"}) =>
            LET inst == bg_tasks[t].institucionales
            IN  /\ {inst[m].nombre : m \in DOMAIN inst}
                      = InstitucionesEsperadas(bg_tasks[t].lat, bg_tasks[t].lon,
                                               bg_tasks[t].tipo_alerta)
                /\ \A m1, m2 \in DOMAIN inst :
                      m1 < m2 => inst[m1].distancia_km <= inst[m2].distancia_km

----------------------------------------------------------------------------
(* The protocol table and obtener_protocolo.  Of an entry the model keeps  *)
(* what obtener_protocolo reads or writes and the call flags; the message  *)
(* templates and instructions are left out.                                *)

Circulos(cuidadores, comunidad, policia, ambulancia, bomberos) ==
    [cuidadores |-> cuidadores, comunidad |-> comunidad, policia |-> policia,
     ambulancia |-> ambulancia, bomberos |-> bomberos]

Protocolo(circulos, nivel_minimo, llamar_123, llamar_155, escalar_min) ==
    [circulos |-> circulos, nivel_minimo |-> nivel_minimo, llamar_123 |-> llamar_123,
     llamar_155 |-> llamar_155, escalar_min |-> escalar_min]

PROTOCOLOS_EMERGENCIA ==
    [robo_hurto |-> Protocolo(Circulos(TRUE, TRUE, TRUE, FALSE, FALSE), 2, TRUE, FALSE, 3),
     robo_armado |-> Protocolo(Circulos(TRUE, TRUE, TRUE, TRUE, FALSE), 3, TRUE, FALSE, 1),
     persona_sospechosa |-> Protocolo(Circulos(FALSE, TRUE, TRUE, FALSE, FALSE), 1, FALSE, FALSE, 10),
     vehiculo_sospechoso |-> Protocolo(Circulos(FALSE, TRUE, TRUE, FALSE, FALSE), 1, FALSE, FALSE, 15),
     agresion_fisica |-> Protocolo(Circulos(TRUE, TRUE, TRUE, TRUE, FALSE), 3, TRUE, TRUE, 2),
     violencia_intrafamiliar |-> Protocolo(Circulos(TRUE, TRUE, TRUE, FALSE, FALSE), 3, TRUE, TRUE, 1),
     emergencia_medica |-> Protocolo(Circulos(TRUE, TRUE, FALSE, TRUE, FALSE), 2, TRUE, FALSE, 2),
     persona_herida |-> Protocolo(Circulos(TRUE, TRUE, FALSE, TRUE, FALSE), 2, TRUE, FALSE, 2),
     caida_persona |-> Protocolo(Circulos(TRUE, TRUE, FALSE, FALSE, FALSE), 1, FALSE, FALSE, 5),
     adulto_perdido |-> Protocolo(Circulos(TRUE, TRUE, TRUE, FALSE, FALSE), 1, FALSE, FALSE, 10),
     accidente_transito |-> Protocolo(Circulos(TRUE, TRUE, TRUE, TRUE, FALSE), 2, TRUE, FALSE, 3),
     incendio |-> Protocolo(Circulos(TRUE, TRUE, TRUE, TRUE, TRUE), 3, TRUE, FALSE, 1),
     inundacion |-> Protocolo(Circulos(TRUE, TRUE, TRUE, FALSE, TRUE), 2, TRUE, FALSE, 2),
     situacion_riesgo |-> Protocolo(Circulos(TRUE, TRUE, TRUE, FALSE, FALSE), 1, FALSE, FALSE, 5),
     dano_propiedad |-> Protocolo(Circulos(FALSE, TRUE, TRUE, FALSE, FALSE), 1, FALSE, FALSE, 15),
     no_emergencia |-> Protocolo(Circulos(TRUE, FALSE, FALSE, FALSE, FALSE), 1, FALSE, FALSE, 30),
     imagen_no_clara |-> Protocolo(Circulos(TRUE, FALSE, FALSE, FALSE, FALSE), 1, FALSE, FALSE, 5)]

PROTOCOLO_DEFAULT == Protocolo(Circulos(TRUE, TRUE, TRUE, FALSE, FALSE), 2, TRUE, FALSE, 3)

(* PROTOCOLOS_EMERGENCIA.get(clasificacion, PROTOCOLO_DEFAULT) *)
entrada_de_tabla(clasificacion) ==
    IF clasificacion \in DOMAIN PROTOCOLOS_EMERGENCIA
    THEN PROTOCOLOS_EMERGENCIA[clasificacion]
    ELSE PROTOCOLO_DEFAULT

(* if tiene_arma and clasificacion == "robo_hurto" *)
protocolo_base(clasificacion, tiene_arma) ==
    IF tiene_arma /\ clasificacion = "robo_hurto"
    THEN PROTOCOLOS_EMERGENCIA["robo_armado"]
    ELSE entrada_de_tabla(clasificacion)

(* if tiene_arma: police on, minimum tier 3, re-escalation after 1 minute *)
ajuste_arma(proto) ==
    [proto EXCEPT !.circulos.policia = TRUE, !.nivel_minimo = 3, !.escalar_min = 1]

ajuste_heridos_fijo(proto) == [proto EXCEPT !.circulos.ambulancia = TRUE, !.nivel_minimo = 2]

ajuste_heridos(proto) == [proto EXCEPT !.circulos.ambulancia = TRUE, !.nivel_minimo = IF @ < 2 THEN 2 ELSE @]

obtener_protocolo(clasificacion, tiene_arma, hay_heridos) ==
    LET base == protocolo_base(clasificacion, tiene_arma)
        con_arma == IF tiene_arma THEN ajuste_arma(base) ELSE base
    IN  IF hay_heridos THEN ajuste_heridos(con_arma) ELSE con_arma

(* Every classification of the table and one the table does not know *)
Clasificaciones == DOMAIN PROTOCOLOS_EMERGENCIA \cup {"otra_cosa"}

(* obtener_protocolo is called and computes its result; it touches no      *)
(* table of the data store.                                                *)
op_llamada(w) ==
    /\ Free(w)
    /\ \E clasificacion \in Clasificaciones, tiene_arma \in BOOLEAN, hay_heridos \in BOOLEAN :
          calls' = [calls EXCEPT ![w] =
                      [op |-> "obtener_protocolo", pc |-> "op_return",
                       clasificacion |-> clasificacion, tiene_arma |-> tiene_arma,
                       hay_heridos |-> hay_heridos,
                       proto |-> obtener_protocolo(clasificacion, tiene_arma, hay_heridos)]]
    /\ UNCHANGED <<notConsulta, respuesta>>

(* return proto: the value goes to the caller; a function call has no HTTP *)
(* status.                                                                 *)
op_return(w) ==
    /\ calls[w].pc = "op_return"
    /\ calls' = [calls EXCEPT ![w] = Idle]
    /\ respuesta' = [op |-> "obtener_protocolo", status |-> NULL, result |-> calls[w].proto]
    /\ UNCHANGED notConsulta

InitProto ==
    /\ EmptyDb
    /\ reportes_usuario = {}
    /\ tokens_fcm = <<>>
    /\ dispositivos_ble = <<>>
    /\ usuarios_sos = <<>>
    /\ contactos_confianza = <<>>
    /\ cuidadores_autorizados = <<>>
    /\ cuidadores_institucionales = <<>>
    /\ ubicaciones_red = <<>>
    /\ alertas_panico = <<>>
    /\ vigilancias = <<>>
    /\ calls = [w \in 1..ProtoWorkers |-> Idle]

NextProto ==
    \E w \in 1..ProtoWorkers :
        \/ op_llamada(w)
        \/ op_return(w)

SpecProto == InitProto /\ [][NextProto]_vars

(* C20: for every classification, known to the table or not, a call of     *)
(* obtener_protocolo with a weapon present returns police participation    *)
(* on, minimum tier 3 and a re-escalation timeout of 1 minute; a call with *)
(* injuries present returns ambulance participation on and a minimum tier  *)
(* that is at least 2 and not lower than the one of the table entry, the   *)
(* default protocol being the entry of an unknown classification.          *)
C20_ProtocolAdjustments ==
    \A w \in DOMAIN calls :
        calls[w].pc = "op_return" =>
            LET c == calls[w]
                entrada == IF c.clasificacion \in DOMAIN PROTOCOLOS_EMERGENCIA
                           THEN PROTOCOLOS_EMERGENCIA[c.clasificacion]
                           ELSE PROTOCOLO_DEFAULT
            IN  /\ c.tiene_arma =>
                      /\ c.proto.circulos.policia
                      /\ c.proto.nivel_minimo = 3
                      /\ c.proto.escalar_min = 1
                /\ c.hay_heridos =>
                      /\ c.proto.circulos.ambulancia
                      /\ c.proto.nivel_minimo >= 2
                      /\ c.proto.nivel_minimo >= entrada.nivel_minimo

(* A call for an unknown classification with a weapon and injuries is      *)
(* about to return the adjusted default protocol, after a call with        *)
(* injuries only for a classification whose table entry has tier 3 and no  *)
(* ambulance has returned tier 3 with the ambulance on.                    *)
C20_Witness ==
    /\ \E w \in DOMAIN calls :
          /\ calls[w].pc = "op_return"
          /\ calls[w].clasificacion \notin DOMAIN PROTOCOLOS_EMERGENCIA
          /\ calls[w].tiene_arma
          /\ calls[w].hay_heridos
          /\ ~PROTOCOLO_DEFAULT.circulos.ambulancia
          /\ PROTOCOLO_DEFAULT.nivel_minimo = 2
          /\ calls[w].proto.nivel_minimo = 3
          /\ calls[w].proto.circulos.ambulancia
    /\ respuesta.op = "obtener_protocolo"
    /\ respuesta.result = [PROTOCOLOS_EMERGENCIA["violencia_intrafamiliar"] EXCEPT !.circulos.ambulancia = TRUE]

----------------------------------------------------------------------------
(* Repeated confirmations *)

(* The confirmations stored for a vigilancia by the person behind a celular *)
ConfirmacionesDe(v, celular) ==
    {r \in confirmaciones_vigilancia :
        r.vigilancia_id = v /\ identidad(r.celular) = identidad(celular)}

----------------------------------------------------------------------------
(* Repeated reports and self-reports *)

(* The reports stored for an ordered pair of persons *)
ReportesDelPar(celular_reportado, celular_reporta) ==
    {r \in reportes_usuario :
        /\ identidad(r.celular_reportado) = identidad(celular_reportado)
        /\ identidad(r.celular_reporta) = identidad(celular_reporta)}

(* C22: at most one report is stored per ordered pair (reported person,    *)
(* reporter), and a reportar_usuario call that finds the report of its     *)
(* pair stored already, whether it came in sequence or concurrently with   *)
(* the first, is answered with 409 and leaves the reports and the block    *)
(* state as they are.                                                      *)
C22_OneReportPerPair ==
    [][\A w \in 1..AbuseWorkers :
          (/\ calls[w].pc = "ru_insert"
           /\ calls'[w] # calls[w]
           /\ ReportesDelPar(calls[w].req.celular_reportado, calls[w].req.celular_reporta) # {}) =>
              /\ respuesta'.op = "reportar_usuario"
              /\ respuesta'.status = 409
              /\ reportes_usuario' = reportes_usuario
              /\ usuarios_sos' = usuarios_sos
              /\ \A a \in Reportados, b \in Reporters :
                    Cardinality(ReportesDelPar(a, b)) <= 1]_vars

(* C23: a report whose reporter and reported celular are the same person,  *)
(* in either form of the number, is rejected with 409, stores no report    *)
(* and changes no block state.                                             *)
C23_SelfReportConflict ==
    [][\A w \in 1..AbuseWorkers : \A req \in ReportarReqs :
          (/\ identidad(req.celular_reporta) = identidad(req.celular_reportado)
           /\ ru_check_de(w, req)) =>
              /\ respuesta'.op = "reportar_usuario"
              /\ respuesta'.status = 409
              /\ calls'[w] = Idle
              /\ reportes_usuario' = reportes_usuario
              /\ usuarios_sos' = usuarios_sos
              /\ ubicaciones_red' = ubicaciones_red]_vars

----------------------------------------------------------------------------
(* POST /token/registrar *)

(* What registrar_token never writes *)
notToken == <<now, usuarios_sos, dbStatic, ubicaciones_red, alertas_panico,
              respuestas_institucionales, reportes_usuario, vigilancias,
              confirmaciones_vigilancia, bg_tasks, alertas_enviadas, fcm, envios,
              tareas_ia>>

(* Beto's phone under both forms of his number, and Caro's *)
TokenReqs == [celular : {CelB, CelB57, CelC}, token : {"tk_1", "tk_2"}, id_persona : {NULL}]

(* UPDATE tokens_fcm SET valido=FALSE WHERE celular IN ($1,$2) AND valido=TRUE *)
rt_update(w) ==
    /\ Free(w)
    /\ Len(tokens_fcm) + Cardinality({v \in DOMAIN calls : calls[v].pc = "rt_insert"}) < MaxTokens
    /\ \E req \in TokenReqs :
          LET n == normalizar_celular(req.celular)
          IN  /\ tokens_fcm' = [t \in DOMAIN tokens_fcm |->
                                   IF tokens_fcm[t].celular \in {n.sin, n.con}
                                   THEN [tokens_fcm[t] EXCEPT !.valido = FALSE]
                                   ELSE tokens_fcm[t]]
              /\ calls' = [calls EXCEPT ![w] =
                             [op |-> "registrar_token", pc |-> "rt_insert", req |-> req]]
    /\ UNCHANGED <<notToken, respuesta>>

(* INSERT INTO tokens_fcm (...) VALUES ($1,$2,$3,TRUE,NOW(),$4,$5) *)
rt_insert(w) ==
    /\ calls[w].pc = "rt_insert"
    /\ tokens_fcm' = Append(tokens_fcm,
          TokenRow(calls[w].req.id_persona, calls[w].req.celular, calls[w].req.token, now))
    /\ Return(w, 200, [success |-> TRUE])
    /\ UNCHANGED notToken

registrar_token(w) ==
    \/ rt_update(w)
    \/ rt_insert(w)

(* An empty tokens_fcm: no phone has registered yet *)
InitToken ==
    /\ EmptyDb
    /\ reportes_usuario = {}
    /\ tokens_fcm = <<>>
    /\ dispositivos_ble = <<>>
    /\ usuarios_sos = <<UsuarioRow(CelB, "Beto"), UsuarioRow(CelC, "Caro")>>
    /\ contactos_confianza = <<>>
    /\ cuidadores_autorizados = <<>>
    /\ cuidadores_institucionales = <<>>
    /\ ubicaciones_red = <<>>
    /\ alertas_panico = <<>>
    /\ vigilancias = <<>>
    /\ calls = [w \in 1..TokWorkers |-> Idle]

NextToken ==
    \E w \in 1..TokWorkers : registrar_token(w)

SpecToken == InitToken /\ [][NextToken]_vars

(* The rows of a token table marked valid for the person behind a celular *)
TokensValidos(tabla, celular) ==
    {t \in DOMAIN tabla :
        tabla[t].valido /\ identidad(tabla[t].celular) = identidad(celular)}

(* C24: under any interleaving of token registrations every person has at  *)
(* most one token marked valid, and when a registration completes that     *)
(* token is the one it registered.                                         *)
C24_OneValidToken ==
    [][/\ \A cel \in {CelB, CelC} : Cardinality(TokensValidos(tokens_fcm', cel)) <= 1
       /\ \A w \in 1..TokWorkers :
             (calls[w].pc = "rt_insert" /\ calls'[w] = Idle) =>
                \A t \in TokensValidos(tokens_fcm', calls[w].req.celular) :
                   tokens_fcm'[t].token = calls[w].req.token]_vars

----------------------------------------------------------------------------
(* What happens to an alert row after its INSERT: POST /evidencia/notificar *)
(* with its background analysis, and POST /panel/alertas/{id}/atender      *)

MaxAnalisis == 2        \* evidence analyses started in a run

(* What neither handler writes *)
notEvidencia == <<now, usuarios_sos, dbStatic, ubicaciones_red, respuestas_institucionales,
                  reportes_usuario, vigilancias, confirmaciones_vigilancia, bg_tasks,
                  tokens_fcm, alertas_enviadas, fcm, envios>>

(* Alert 1 or 2; an image with an accepted extension, or a video *)
EvidenciaReqs == [alerta_id : {1, 2}, tipo_archivo : {"imagen", "video"}]

(* notificar_evidencia_subida: 404 when the alert does not exist; for an   *)
(* image, when the bucket and the API key are configured, the analysis is  *)
(* handed to BackgroundTasks.                                              *)
notificar_evidencia_subida(w) ==
    /\ Free(w)
    /\ Len(tareas_ia) < MaxAnalisis
    /\ \E req \in EvidenciaReqs, configurado \in BOOLEAN :
          IF req.alerta_id \notin DOMAIN alertas_panico
          THEN /\ respuesta' = [op |-> "notificar_evidencia_subida", status |-> 404,
                                result |-> [analisis_iniciado |-> FALSE]]
               /\ UNCHANGED tareas_ia
          ELSE LET inicia == req.tipo_archivo = "imagen" /\ configurado
               IN  /\ tareas_ia' = IF inicia
                                   THEN Append(tareas_ia, [alerta_id |-> req.alerta_id,
                                                           pc |-> "pendiente"])
                                   ELSE tareas_ia
                   /\ respuesta' = [op |-> "notificar_evidencia_subida", status |-> 200,
                                    result |-> [analisis_iniciado |-> inicia]]
    /\ UNCHANGED <<notEvidencia, alertas_panico, calls>>

(* What the download and the analysis can give: no download, an error of   *)
(* the analysis, or an analysis with its urgency                           *)
ResultadosAnalisis == {"sin_descarga", "error", "alta", "media"}

(* SET mensaje = mensaje || $1 *)
anotar_reemplazando(mensaje, nota) == [mensaje EXCEPT !.texto = nota, !.notas = <<>>]

anotar(mensaje, nota) == [mensaje EXCEPT !.notas = Append(@, nota)]

(* _analizar_evidencia_auto: when the analysis finds a critical or high    *)
(* urgency, UPDATE alertas_panico SET mensaje = mensaje || note WHERE id   *)
analizar_evidencia_auto(i) ==
    /\ i \in DOMAIN tareas_ia
    /\ tareas_ia[i].pc = "pendiente"
    /\ \E resultado \in ResultadosAnalisis :
          /\ tareas_ia' = [tareas_ia EXCEPT ![i].pc = resultado]
          /\ alertas_panico' =
                IF resultado \in {"critica", "alta"}
                THEN [a \in DOMAIN alertas_panico |->
                         IF a = tareas_ia[i].alerta_id
                         THEN [alertas_panico[a] EXCEPT !.mensaje = anotar(@, resultado)]
                         ELSE alertas_panico[a]]
                ELSE alertas_panico
    /\ UNCHANGED <<notEvidencia, calls, respuesta>>

(* panel_atender_alerta: 401 without a valid panel session, else           *)
(* UPDATE alertas_panico SET atendida = 'si' WHERE id = $1                 *)
panel_atender_alerta(w) ==
    /\ Free(w)
    /\ \E alerta_id \in {1, 2}, sesion_valida \in BOOLEAN :
          IF ~sesion_valida
          THEN /\ respuesta' = [op |-> "panel_atender_alerta", status |-> 401,
                                result |-> [alerta_id |-> alerta_id]]
               /\ UNCHANGED alertas_panico
          ELSE /\ alertas_panico' =
                     [a \in DOMAIN alertas_panico |->
                         IF a = alerta_id
                         THEN [alertas_panico[a] EXCEPT !.atendida = "si"]
                         ELSE alertas_panico[a]]
               /\ respuesta' = [op |-> "panel_atender_alerta", status |-> 200,
                                result |-> [alerta_id |-> alerta_id]]
    /\ UNCHANGED <<notEvidencia, tareas_ia, calls>>

(* A tier-1 alert with the caller's text and a tier-3 alert with           *)
(* coordinates                                                             *)
AtenderReqs ==
    {AlertaReq("", 1, "salud", Texto("auxilio"), NULL, NULL),
     AlertaReq("", 3, "seguridad", SinMensaje, 400, 1)}

(* The request arrives, as in ra_nombre *)
ra_nombre_atender(w) ==
    /\ Free(w)
    /\ Len(alertas_panico) < MaxAlertas
    /\ \E req \in AtenderReqs : calls' = [calls EXCEPT ![w] = alerta_en_curso("recibir_alerta", req)]
    /\ UNCHANGED <<notAlerta, alertas_panico, bg_tasks, respuesta>>

NextAtender ==
    \/ \E w \in 1..AlertWorkers :
          \/ ra_nombre_atender(w)
          \/ recibir_alerta(w)
          \/ notificar_evidencia_subida(w)
          \/ panel_atender_alerta(w)
    \/ \E i \in DOMAIN tareas_ia : analizar_evidencia_auto(i)

SpecAtender == InitAlerta /\ [][NextAtender]_vars

(* C25: once an alert row exists no step changes its celular, its tier,    *)
(* its classification, its coordinates, its origin channel or its creation *)
(* time, and no row disappears; a step changes at most atendida and the    *)
(* message, and the message only by appending to its end.                  *)
C25_AlertImmutable ==
    [][/\ Len(alertas_panico') >= Len(alertas_panico)
       /\ \A a \in DOMAIN alertas_panico :
             LET antes == alertas_panico[a]
                 despues == alertas_panico'[a]
             IN  /\ despues.celular = antes.celular
                 /\ despues.nombre = antes.nombre
                 /\ despues.nivel_emergencia = antes.nivel_emergencia
                 /\ despues.nivel_alerta = antes.nivel_alerta
                 /\ despues.tipo_alerta = antes.tipo_alerta
                 /\ despues.latitud = antes.latitud
                 /\ despues.longitud = antes.longitud
                 /\ despues.fuente_alerta = antes.fuente_alerta
                 /\ despues.fecha_hora = antes.fecha_hora
                 /\ [despues.mensaje EXCEPT !.notas = <<>>] = [antes.mensaje EXCEPT !.notas = <<>>]
                 /\ Len(despues.mensaje.notas) >= Len(antes.mensaje.notas)
                 /\ SubSeq(despues.mensaje.notas, 1, Len(antes.mensaje.notas))
                       = antes.mensaje.notas]_vars

(* The alert has been marked as handled and its message carries two notes  *)
(* of the analysis after the caller's text.                                *)
C25_Witness ==
    /\ \E a \in DOMAIN alertas_panico :
          /\ alertas_panico[a].atendida = "si"
          /\ alertas_panico[a].fecha_hora = 0
          /\ alertas_panico[a].mensaje.texto = "auxilio"
          /\ alertas_panico[a].mensaje.notas = <<"alta", "alta">>

----------------------------------------------------------------------------
(* C26: a respond call that names an alert id that does not exist fails    *)
(* with 404, creates no Response row and sends no notification: the step   *)
(* that looks the alert up answers 404 and ends the call with every table  *)
(* and the push transport untouched, and no Response row and no push ever  *)
(* names an id that is not an alert's.                                     *)
C26_UnknownAlertNotFound ==
    [][/\ \A i \in DOMAIN respuestas_institucionales' :
             respuestas_institucionales'[i].alerta_id \in DOMAIN alertas_panico'
       /\ \A x \in DOMAIN fcm' : fcm'[x].alerta_id \in DOMAIN alertas_panico'
       /\ \A w \in 1..RespWorkers : \A req \in ResponderReqs :
             (req.alerta_id \notin DOMAIN alertas_panico /\ rs_alerta_de(w, req)) =>
                /\ respuesta' = [op |-> "responder_alerta", status |-> 404, result |-> "error"]
                /\ calls' = calls
                /\ respuestas_institucionales' = respuestas_institucionales
                /\ fcm' = fcm]_vars

(* A call for alert 2, which does not exist, was answered 404 after a call *)
(* for alert 1 had stored its row and pushed to the alert's source.        *)
C26_Witness ==
    /\ respuesta = [op |-> "responder_alerta", status |-> 404, result |-> "error"]
    /\ \A w \in DOMAIN calls : calls[w] = Idle
    /\ Len(respuestas_institucionales) = 1
    /\ respuestas_institucionales[1].alerta_id = 1
    /\ Len(fcm) = 1 /\ fcm[1].alerta_id = 1 /\ fcm[1].token = "tk_ana"
    /\ 2 \notin DOMAIN alertas_panico

----------------------------------------------------------------------------
(* One person in two circles.  Beto is Ana's contact, stored as he typed   *)
(* his number, and a neighbour with a fresh position 50 m from her alerts, *)
(* stored under the prefixed form by actualizar_ubicacion.                 *)
InitCirculos ==
    /\ EmptyDb
    /\ reportes_usuario = {}
    /\ usuarios_sos = <<UsuarioRow(CelA, "Ana"), UsuarioRow(CelB, "Beto")>>
    /\ dispositivos_ble = <<>>
    /\ contactos_confianza = <<ContactoRow(1, "Beto", CelB, TRUE, TRUE)>>
    /\ cuidadores_autorizados = <<>>
    /\ cuidadores_institucionales =
          <<InstitucionRow("CAI Norte", "Policia Nacional", CelP, "policia", 21, 500, 1, TRUE)>>
    /\ ubicaciones_red = <<UbicacionRow(CelB, "Beto", 450, 1, TRUE, 0)>>
    /\ tokens_fcm = <<TokenRow(NULL, CelB, "tk_beto", 0)>>
    /\ alertas_panico = <<>>
    /\ vigilancias = <<>>
    /\ calls = [w \in 1..DispWorkers |-> Idle]

SpecCirculos == InitCirculos /\ [][NextEnvio]_vars

(* The delivery records of table tabla for alert a and the person of celular *)
RegistrosDelPar(tabla, a, celular) ==
    {x \in DOMAIN tabla :
        /\ tabla[x].alerta_id = a
        /\ identidad(tabla[x].celular_cuidador_institucional) = identidad(celular)}

(* C27: an alert has at most one delivery record per recipient identity,   *)
(* also when one person is in more than one of its circles; a record is    *)
(* created only by a step of the dispatcher, and the records there are do  *)
(* not change.                                                             *)
C27_OneRecordPerIdentity ==
    [][alertas_enviadas' # alertas_enviadas =>
          /\ \A x \in DOMAIN alertas_enviadas' :
                Cardinality(RegistrosDelPar(alertas_enviadas', alertas_enviadas'[x].alerta_id,
                               alertas_enviadas'[x].celular_cuidador_institucional)) <= 1
          /\ \E i \in DOMAIN bg_tasks : en_insert(i)
          /\ Len(alertas_enviadas') = Len(alertas_enviadas) + 1
          /\ SubSeq(alertas_enviadas', 1, Len(alertas_enviadas)) = alertas_enviadas]_vars

(* The same with the recipient taken as the entry of the resolved lists:   *)
(* this the dispatcher does keep when no send raises.                      *)
C27_RecordsOnlyAppended ==
    [][alertas_enviadas' # alertas_enviadas =>
          /\ \E i \in DOMAIN bg_tasks : en_insert(i)
          /\ Len(alertas_enviadas') = Len(alertas_enviadas) + 1
          /\ SubSeq(alertas_enviadas', 1, Len(alertas_enviadas)) = alertas_enviadas]_vars

----------------------------------------------------------------------------
(* Escalation next to ingestion.  The CAI, 100 m from the reported         *)
(* vigilancia and from Ana's alerts, has a registered token.               *)
InitEscala ==
    /\ EmptyDb
    /\ reportes_usuario = {}
    /\ usuarios_sos = <<UsuarioRow(CelA, "Ana"), UsuarioRow(CelD, "Dora")>>
    /\ dispositivos_ble = <<>>
    /\ contactos_confianza = <<>>
    /\ cuidadores_autorizados = <<>>
    /\ cuidadores_institucionales =
          <<InstitucionRow("CAI Norte", "Policia Nacional", CelP, "policia", 21, 500, 1, TRUE)>>
    /\ ubicaciones_red = <<>>
    /\ tokens_fcm = <<TokenRow(21, CelP, "tk_cai", 0)>>
    /\ alertas_panico = <<>>
    /\ vigilancias = <<VigilanciaRow(CelD, "Dora", "merodeo", 400, 1)>>
    /\ calls = [w \in 1..DispWorkers |-> Idle]

NextEscala ==
    \/ \E w \in 1..DispWorkers :
          \/ confirmar_vigilancia(w)
          \/ ra_nombre_envio(w)
          \/ recibir_alerta(w)
    \/ \E i \in DOMAIN bg_tasks : enviar_notificaciones_v2(i)

SpecEscala == InitEscala /\ [][NextEscala]_vars

(* The event loop runs every handler it has started and every background   *)
(* task that was queued to its end.                                        *)
EnMarcha(w) == ~Free(w) /\ (confirmar_vigilancia(w) \/ recibir_alerta(w))

FairEscala ==
    /\ SpecEscala
    /\ \A w \in 1..DispWorkers : WF_vars(EnMarcha(w))
    /\ \A i \in 1..MaxEnvios : WF_vars(enviar_notificaciones_v2(i))

(* The recipients that ingestion resolves for a tier-2 'seguridad' alert   *)
(* with the source and the coordinates of vigilancia v.                    *)
DestinatariosDeEscalada(v) ==
    LET u == vigilancias[v]
        n == normalizar_celular(u.celular)
    IN  circulo_personal(n.sin, n.con)
           \o institucionales_cercanos(u.latitud, u.longitud, "seguridad")

(* C28: once a vigilancia is escalated, eventually every recipient that    *)
(* ingestion resolves for its alert has a delivery record of that alert.   *)
C28_EscalationIsDispatched ==
    \A v \in {1} :
        [](vigilancias[v].escalada =>
              <>(\A k \in DOMAIN DestinatariosDeEscalada(v) :
                    \E x \in DOMAIN alertas_enviadas :
                        /\ alertas_enviadas[x].alerta_id = vigilancias[v].alerta_id
                        /\ alertas_enviadas[x].celular_cuidador_institucional
                              = DestinatariosDeEscalada(v)[k].celular))

(* The same of an ingested alert, which the code does bring about when no  *)
(* send raises: once Ana's alert is acknowledged, eventually its dispatch   *)
(* has ended, with a record for the CAI unless it was ended by a send.     *)
IngestedIsDispatched ==
    \A a \in 1..MaxEnvios :
        []((\E i \in DOMAIN bg_tasks : bg_tasks[i].alerta_id = a) =>
              <>(\E i \in DOMAIN envios :
                    /\ bg_tasks[i].alerta_id = a
                    /\ envios[i].pc \in {"fin", "abortado"}
                    /\ envios[i].pc = "fin" => RegistrosDe(a) # <<>>))

----------------------------------------------------------------------------
(* C29: in every reachable state a vigilancia is marked escalated if and   *)
(* only if it holds a linked alert id; that id is the id of a stored alert *)
(* of tier 2 and classification 'seguridad' with the celular and the       *)
(* coordinates of the vigilancia; and a vigilancia with fewer than 2       *)
(* confirmations is not escalated.                                         *)
C29_EscalatedIffLinked ==
    \A v \in DOMAIN vigilancias :
        LET u == vigilancias[v]
        IN  /\ u.escalada <=> u.alerta_id # NULL
            /\ u.escalada =>
                  /\ u.alerta_id \in DOMAIN alertas_panico
                  /\ alertas_panico[u.alerta_id].nivel_emergencia = 2
                  /\ alertas_panico[u.alerta_id].tipo_alerta = "seguridad"
                  /\ alertas_panico[u.alerta_id].celular = u.celular
                  /\ alertas_panico[u.alerta_id].latitud = u.latitud
                  /\ alertas_panico[u.alerta_id].longitud = u.longitud
            /\ u.confirmaciones < 2 => ~u.escalada

(* Vigilancia 1 is escalated and linked to alert 1 on its second           *)
(* confirmation, one rejection having been counted as well, and the call   *)
(* that escalated it has returned.                                         *)
C29_Witness ==
    /\ vigilancias[1].escalada
    /\ vigilancias[1].alerta_id = 1
    /\ vigilancias[1].confirmaciones = 2
    /\ vigilancias[1].rechazos = 1
    /\ Len(alertas_panico) = 1
    /\ respuesta = [op |-> "confirmar_vigilancia", status |-> 200,
                    result |-> [escalada |-> TRUE, alerta_id |-> 1]]

----------------------------------------------------------------------------
(* POST /alerta when the data store fails.  recibir_alerta and             *)
(* buscar_red_comunitaria have no try/except and the application installs  *)
(* no exception handler: an exception of a query ends the handler and the  *)
(* caller gets 500.                                                        *)

(* The statements that resolve the circles *)
ResolviendoCirculos == {"ra_contactos", "ra_autorizados", "ra_institucionales", "ra_comunidad"}

(* What the exception does to the call in slot w *)
propaga_ignorada(w) ==
    /\ calls' = [calls EXCEPT ![w].pc = "ra_tarea"]
    /\ UNCHANGED respuesta

propaga(w) ==
    /\ Return(w, 500, "error")

(* A query of the circle resolution raises: the alert's row is committed   *)
(* already, the lines after the query, bg.add_task among them, do not run. *)
ra_falla(w) ==
    /\ calls[w].pc \in ResolviendoCirculos
    /\ propaga(w)
    /\ UNCHANGED <<notAlerta, alertas_panico, bg_tasks>>

NextFalla ==
    \/ \E w \in 1..DispWorkers :
          \/ ra_nombre_envio(w)
          \/ recibir_alerta(w)
          \/ ra_falla(w)
    \/ \E i \in DOMAIN bg_tasks : enviar_notificaciones_v2(i)

SpecFalla == InitEnvio /\ [][NextFalla]_vars

(* Alert a is stored, no handler is working on it and no task was queued   *)
(* for it: its ingestion was aborted.                                      *)
Abortada(a) ==
    /\ a \in DOMAIN alertas_panico
    /\ ~EnIngesta(a)
    /\ \A i \in DOMAIN bg_tasks : bg_tasks[i].alerta_id # a

(* Nothing was sent or recorded for alert a *)
SinEnvios(a) ==
    /\ RegistrosDe(a) = <<>>
    /\ \A x \in DOMAIN fcm : fcm[x].alerta_id # a

(* C30: when a query that resolves a circle fails, the call ends with an   *)
(* error and not with the acknowledgement, no task is queued, and the      *)
(* alert is left aborted; an aborted alert stays aborted, and nothing is   *)
(* ever sent or recorded for it.                                           *)
C30_CircleFailureAborts ==
    [][/\ \A w \in 1..DispWorkers :
             (calls[w].pc \in ResolviendoCirculos /\ ra_falla(w)) =>
                /\ respuesta' = [op |-> "recibir_alerta", status |-> 500, result |-> "error"]
                /\ calls'[w] = Idle
                /\ bg_tasks' = bg_tasks
                /\ alertas_enviadas' = alertas_enviadas
                /\ \A a \in DOMAIN alertas_panico :
                      a = calls[w].alerta_id => Abortada(a)' /\ SinEnvios(a)
       /\ \A a \in DOMAIN alertas_panico :
             (Abortada(a) /\ SinEnvios(a)) => (Abortada(a)' /\ SinEnvios(a)')]_vars

(* The ingestion of alert 1 was aborted while its community circle was     *)
(* being resolved; alert 2, ingested afterwards, has been dispatched to    *)
(* its end, and alert 1 has no record.                                     *)
C30_Witness ==
    /\ Len(alertas_panico) = 2
    /\ Abortada(1) /\ SinEnvios(1)
    /\ \E i \in DOMAIN envios : bg_tasks[i].alerta_id = 2 /\ envios[i].pc = "fin"
    /\ Len(RegistrosDe(2)) = 4
    /\ \A w \in DOMAIN calls : calls[w] = Idle

----------------------------------------------------------------------------
(* The message of each recipient.  Ana has a contact, Beto; the CAI is 100 *)
(* m from the alerts; Dora and Eva are neighbours 50 m and 500 m away.     *)
(* Ana sends a tier-2 alert and a tier-3 alert with a text of her own;     *)
(* Dora's alert has no personal circle and one neighbour.                  *)
MensajeReqs ==
    {AlertaReq("", 2, "seguridad", SinMensaje, 400, 1),
     AlertaReq("", 3, "seguridad", Texto("auxilio"), 400, 1),
     [AlertaReq("", 3, "seguridad", SinMensaje, 400, 1) EXCEPT !.celular = CelD]}

ra_nombre_mensaje(w) ==
    /\ Free(w)
    /\ Len(alertas_panico) < MaxEnvios
    /\ \E req \in MensajeReqs : calls' = [calls EXCEPT ![w] = alerta_en_curso("recibir_alerta", req)]
    /\ UNCHANGED <<notAlerta, alertas_panico, bg_tasks, respuesta>>

InitMensaje ==
    /\ EmptyDb
    /\ reportes_usuario = {}
    /\ usuarios_sos = <<UsuarioRow(CelA, "Ana"), UsuarioRow(CelB, "Beto"),
                        UsuarioRow(CelD, "Dora"), UsuarioRow(CelE57, "Eva")>>
    /\ dispositivos_ble = <<>>
    /\ contactos_confianza = <<ContactoRow(1, "Beto", CelB, TRUE, TRUE)>>
    /\ cuidadores_autorizados = <<>>
    /\ cuidadores_institucionales =
          <<InstitucionRow("CAI Norte", "Policia Nacional", CelP, "policia", 21, 500, 1, TRUE)>>
    /\ ubicaciones_red = <<UbicacionRow(CelD, "Dora", 450, 1, TRUE, 0),
                           UbicacionRow(CelE57, "Eva", 900, 1, TRUE, 0)>>
    /\ tokens_fcm = <<TokenRow(NULL, CelB, "tk_beto", 0), TokenRow(NULL, CelE57, "tk_eva", 0)>>
    /\ alertas_panico = <<>>
    /\ vigilancias = <<>>
    /\ calls = [w \in 1..DispWorkers |-> Idle]

NextMensaje ==
    \/ \E w \in 1..DispWorkers :
          \/ ra_nombre_mensaje(w)
          \/ recibir_alerta(w)
    \/ \E i \in DOMAIN bg_tasks : enviar_notificaciones_v2(i)

SpecMensaje == InitMensaje /\ [][NextMensaje]_vars

(* The message that entry d of the todos of a task is due: the alert's own *)
(* as it is stored, or the community message with d's distance.            *)
MensajeDebido(task, d) ==
    IF d.rol_dest = "comunidad"
    THEN Msg("comunidad", task.nombre, "", "", d.dest.distancia_km)
    ELSE alertas_panico[task.alerta_id].mensaje

(* C31: every send and every delivery record of a personal or an           *)
(* institutional recipient carries the alert's own message, and every send *)
(* and record of a community recipient carries the community message.      *)
C31_MessagePerCircle ==
    \A i \in DOMAIN envios :
        LET task == bg_tasks[i]
            regs == RegistrosDe(task.alerta_id)
        IN  /\ \A x \in DOMAIN fcm :
                  fcm[x].alerta_id = task.alerta_id =>
                     fcm[x].cuerpo = MensajeDebido(task, todos(task)[fcm[x].k])
            /\ \A k \in DOMAIN regs :
                  /\ regs[k].rol_destinatario = todos(task)[k].rol_dest
                  /\ regs[k].mensaje = MensajeDebido(task, todos(task)[k])
                  /\ regs[k].rol_destinatario \in {"cuidador", "institucional"}
                        => regs[k].mensaje.kind # "comunidad"

(* A dispatch of an alert with Ana's own text has ended with four records: *)
(* Beto and the CAI with her text, Dora and Eva with the community message *)
(* at 50 m and at 500 m; Beto and Eva were sent theirs.                    *)
C31_Witness ==
    \E i \in DOMAIN envios :
        LET regs == RegistrosDe(bg_tasks[i].alerta_id)
        IN  /\ envios[i].pc = "fin"
            /\ Len(regs) = 4
            /\ regs[1].mensaje = Texto("auxilio") /\ regs[1].rol_destinatario = "cuidador"
            /\ regs[2].mensaje = Texto("auxilio") /\ regs[2].rol_destinatario = "institucional"
            /\ regs[3].mensaje.kind = "comunidad" /\ regs[3].mensaje.n = 5
            /\ regs[4].mensaje.kind = "comunidad" /\ regs[4].mensaje.n = 50
            /\ Cardinality({x \in DOMAIN fcm : fcm[x].alerta_id = bg_tasks[i].alerta_id}) = 2

----------------------------------------------------------------------------
(* C32: a respond call that has stored its Response makes at most one send *)
(* to the alert's source and then succeeds, whatever the outcome of the    *)
(* send, and the Response row stays.                                       *)
C32_NotificationBestEffort ==
    [][\A w \in 1..RespWorkers :
          (calls[w].pc = "rs_notificar" /\ rs_notificar(w)) =>
             /\ respuesta'.status = 200
             /\ respuestas_institucionales' = respuestas_institucionales
             /\ Len(fcm') <= Len(fcm) + 1
             /\ \A x \in DOMAIN fcm' \ DOMAIN fcm :
                   identidad(fcm'[x].celular)
                      = identidad(alertas_panico[calls[w].req.alerta_id].celular)]_vars

----------------------------------------------------------------------------
(* normalizar_celular on its own.  The numbers: nothing, 57 or +57 in      *)
(* front of a number that starts with 3, with 6, with 57 or with 1 and has *)
(* 6 to MaxCuerpo further digits.                                          *)
Cuerpo(n) == [i \in 1..n |-> i % 10]

Entradas ==
    {pre \o ini \o Cuerpo(n) :
        pre \in {<<>>, <<5,7>>, <<PLUS,5,7>>}, ini \in {<<3>>, <<6>>, <<5,7>>, <<>>},
        n \in 6..MaxCuerpo}

(* sin_57, con_57 = normalizar_celular(celular), and the function applied  *)
(* again to each of the two forms, as a caller does that takes a stored    *)
(* form as an inbound number.                                              *)
nc_llamada(w) ==
    /\ Free(w)
    /\ \E celular \in Entradas :
          LET par == normalizar_celular(celular)
          IN  calls' = [calls EXCEPT ![w] =
                          [op |-> "normalizar_celular", pc |-> "nc_return",
                           celular |-> celular, par |-> par,
                           de_sin |-> normalizar_celular(par.sin),
                           de_con |-> normalizar_celular(par.con)]]
    /\ UNCHANGED <<notConsulta, respuesta>>

nc_return(w) ==
    /\ calls[w].pc = "nc_return"
    /\ calls' = [calls EXCEPT ![w] = Idle]
    /\ respuesta' = [op |-> "normalizar_celular", status |-> NULL,
                     result |-> [celular |-> calls[w].celular, par |-> calls[w].par,
                                 de_sin |-> calls[w].de_sin, de_con |-> calls[w].de_con]]
    /\ UNCHANGED notConsulta

InitNorm ==
    /\ EmptyDb
    /\ reportes_usuario = {}
    /\ tokens_fcm = <<>>
    /\ dispositivos_ble = <<>>
    /\ usuarios_sos = <<>>
    /\ contactos_confianza = <<>>
    /\ cuidadores_autorizados = <<>>
    /\ cuidadores_institucionales = <<>>
    /\ ubicaciones_red = <<>>
    /\ alertas_panico = <<>>
    /\ vigilancias = <<>>
    /\ calls = [w \in 1..NormWorkers |-> Idle]

NextNorm ==
    \E w \in 1..NormWorkers :
        \/ nc_llamada(w)
        \/ nc_return(w)

SpecNorm == InitNorm /\ [][NextNorm]_vars

(* C33: normalizar_celular applied to the digit-only form or to the        *)
(* prefixed form that it returned returns the same pair again.             *)
C33_NormalizerStable ==
    respuesta.op = "normalizar_celular" =>
        /\ respuesta.result.de_sin = respuesta.result.par
        /\ respuesta.result.de_con = respuesta.result.par

(* The same for the numbers whose digit-only form has 9 or 10 digits, as   *)
(* Colombian mobile numbers have.                                          *)
NormalizerStableOnMobiles ==
    (respuesta.op = "normalizar_celular" /\ Len(respuesta.result.par.sin) \in {9, 10}) =>
        /\ respuesta.result.de_sin = respuesta.result.par
        /\ respuesta.result.de_con = respuesta.result.par

----------------------------------------------------------------------------
(* POST /usuario/registrar next to POST /usuario/reportar *)

RegistrarReqs == [celular : {CelA, CelB57}, nombre : {"Beto"}]

(* SELECT id FROM usuarios_sos WHERE celular IN ($1,$2); 409 if there is one *)
ur_select(w) ==
    /\ Free(w)
    /\ Len(usuarios_sos) + Cardinality({v \in DOMAIN calls : calls[v].pc = "ur_insert"}) < MaxUsuarios
    /\ \E req \in RegistrarReqs :
          LET n == normalizar_celular(req.celular)
          IN  IF \E u \in DOMAIN usuarios_sos : usuarios_sos[u].celular \in {n.sin, n.con}
              THEN /\ respuesta' = [op |-> "registrar_usuario", status |-> 409, result |-> NULL]
                   /\ UNCHANGED calls
              ELSE /\ calls' = [calls EXCEPT ![w] =
                        [op |-> "registrar_usuario", pc |-> "ur_insert", req |-> req]]
                   /\ UNCHANGED respuesta
    /\ UNCHANGED <<notAbuse, usuarios_sos, ubicaciones_red, reportes_usuario>>

(* INSERT INTO usuarios_sos (...) RETURNING id: the columns the statement  *)
(* does not name, bloqueado among them, take their defaults.               *)
ur_insert(w) ==
    /\ calls[w].pc = "ur_insert"
    /\ usuarios_sos' = Append(usuarios_sos, UsuarioRow(calls[w].req.celular, calls[w].req.nombre))
    /\ Return(w, 200, Len(usuarios_sos) + 1)
    /\ UNCHANGED <<notAbuse, ubicaciones_red, reportes_usuario>>

registrar_usuario(w) ==
    \/ ur_select(w)
    \/ ur_insert(w)

(* Reports against Beto, who may register at any time and is one of the    *)
(* reporters.                                                              *)
BloqueoReqs == [celular_reporta : {CelB, CelC57, CelD, CelE57}, celular_reportado : {CelB57}]

ru_check_bloqueo(w) == \E req \in BloqueoReqs : ru_check_de(w, req)

NextBloqueo ==
    \E w \in 1..AbuseWorkers :
        \/ ru_check_bloqueo(w)
        \/ ru_insert(w)
        \/ ru_count(w)
        \/ ru_block(w)
        \/ ru_ping(w)
        \/ registrar_usuario(w)

SpecBloqueo == InitAbuse /\ [][NextBloqueo]_vars

(* The reporters with a Report row against the person of celular *)
ReportantesDe(tabla, celular) ==
    {identidad(r.celular_reporta) : r \in {q \in tabla : identidad(q.celular_reportado) = identidad(celular)}}

----------------------------------------------------------------------------
(* POST /ble/alerta: the unified BLE button endpoint.  A press for         *)
(* platform "ami_sos" is ingested here by recibir_alerta; a press for      *)
(* platform "ami" is forwarded to the Ami adultos backend and stored here  *)
(* only when the forwarding fails.                                         *)

(* class AlertaBLE: nivel_emergencia is an int with no validator, and      *)
(* plataforma is any string.                                               *)
BleReqs ==
    [celular : {CelA}, nombre : {""}, plataforma : {"ami_sos", "ami", "otra"},
     nivel_emergencia : {0, 3, 5}, tipo_alerta : {"emergencia"},
     mensaje : {SinMensaje}, latitud : {NULL}, longitud : {NULL}]

(* What client.post can do: answer 200, answer another status, run into    *)
(* the 15 s timeout, or raise any other error.                             *)
ResultadosReenvio == {"ok", "http_error", "timeout", "error"}

(* The forwarding failed: resp.status_code != 200, httpx.TimeoutException  *)
(* or any other Exception.                                                 *)
reenvio_fallido_sin_timeout(resultado) == resultado \in {"http_error", "error"}

reenvio_fallido(resultado) == resultado # "ok"

(* The AlertaRequest that the "ami_sos" branch hands to recibir_alerta *)
alerta_req_ble(req) ==
    [celular |-> req.celular, nombre |-> req.nombre,
     nivel_emergencia |-> req.nivel_emergencia, tipo_alerta |-> req.tipo_alerta,
     mensaje |-> req.mensaje, latitud |-> req.latitud, longitud |-> req.longitud,
     fuente_alerta |-> "boton"]

(* The handler up to its first await.  AMI_ADULTOS_URL is read from the    *)
(* environment when the module is loaded; configurada tells whether the    *)
(* deployment that receives the request has it.                            *)
ab_llamada_de(w, req, configurada) ==
    /\ Free(w)
    /\ Len(alertas_panico) < MaxAlertasBle
    /\ IF req.plataforma = "ami_sos"
       THEN /\ calls' = [calls EXCEPT ![w] =
                            alerta_en_curso("alerta_ble_unificada", alerta_req_ble(req))]
            /\ UNCHANGED respuesta
       ELSE IF req.plataforma = "ami"
       THEN IF ~configurada
            THEN /\ respuesta' = [op |-> "alerta_ble_unificada", status |-> 500,
                                  result |-> [plataforma |-> "ami"]]
                 /\ UNCHANGED calls
            ELSE /\ calls' = [calls EXCEPT ![w] =
                                 [op |-> "alerta_ble_unificada", pc |-> "ab_forward",
                                  req |-> req,
                                  cel_con |-> normalizar_celular(req.celular).con,
                                  motivo |-> "none"]]
                 /\ UNCHANGED respuesta
       ELSE /\ respuesta' = [op |-> "alerta_ble_unificada", status |-> 400,
                             result |-> [plataforma |-> req.plataforma]]
            /\ UNCHANGED calls
    /\ UNCHANGED <<notAlerta, alertas_panico, bg_tasks>>

ab_llamada(w) ==
    \E req \in BleReqs, configurada \in BOOLEAN : ab_llamada_de(w, req, configurada)

(* resp = await client.post(AMI_ADULTOS_URL, ..., timeout=15) *)
ab_forward_de(w, resultado) ==
    /\ calls[w].pc = "ab_forward"
    /\ IF reenvio_fallido(resultado)
       THEN /\ calls' = [calls EXCEPT ![w].pc = "ab_fallback", ![w].motivo = resultado]
            /\ UNCHANGED respuesta
       ELSE Return(w, 200, [success |-> TRUE, plataforma |-> "ami"])
    /\ UNCHANGED <<notAlerta, alertas_panico, bg_tasks>>

ab_forward(w) == \E resultado \in ResultadosReenvio : ab_forward_de(w, resultado)

(* _guardar_alerta_fallback: the INSERT stores req.nivel_emergencia as it  *)
(* came in the request.                                                    *)
ab_fallback(w) ==
    /\ calls[w].pc = "ab_fallback"
    /\ LET c == calls[w]
           nombre == IF c.req.nombre # "" THEN c.req.nombre ELSE "Usuario Ami"
           de == IF c.req.nombre # "" THEN c.req.nombre ELSE "Usuario"
       IN  /\ alertas_panico' = Append(alertas_panico,
                 AlertaRow(nombre, Msg("fallback", de, "ami", c.motivo, 0), c.cel_con,
                           tipo_db(c.req.tipo_alerta), c.req.latitud, c.req.longitud,
                           IF c.req.nivel_emergencia >= 2 THEN "critica" ELSE "leve",
                           "boton", c.req.nivel_emergencia))
           /\ Return(w, 200, [success |-> FALSE, plataforma |-> "ami",
                              fallback_alerta_id |-> Len(alertas_panico) + 1])
    /\ UNCHANGED <<notAlerta, bg_tasks>>

alerta_ble_unificada(w) ==
    \/ ab_llamada(w)
    \/ ab_forward(w)
    \/ ab_fallback(w)

InitBle ==
    /\ EmptyDb
    /\ reportes_usuario = {}
    /\ tokens_fcm = <<>>
    /\ dispositivos_ble = <<>>
    /\ usuarios_sos = <<UsuarioRow(CelA, "Ana"), UsuarioRow(CelB, "Beto")>>
    /\ contactos_confianza = <<ContactoRow(1, "Beto", CelB, TRUE, TRUE)>>
    /\ cuidadores_autorizados = <<>>
    /\ cuidadores_institucionales = <<>>
    /\ ubicaciones_red = <<>>
    /\ alertas_panico = <<>>
    /\ vigilancias = <<>>
    /\ calls = [w \in 1..BleWorkers |-> Idle]

NextBle ==
    \E w \in 1..BleWorkers :
        \/ alerta_ble_unificada(w)
        \/ recibir_alerta(w)

SpecBle == InitBle /\ [][NextBle]_vars

(* C35: every alert row stores an emergency tier of 1, 2 or 3, whichever   *)
(* path created it.                                                        *)
C35_TierIsOneTwoOrThree ==
    \A a \in DOMAIN alertas_panico : alertas_panico[a].nivel_emergencia \in {1, 2, 3}

(* The rows that recibir_alerta itself inserts do carry a tier of 1, 2 or  *)
(* 3: the handler replaces any other value by 2.                           *)
IngestedTierIsOneTwoOrThree ==
    \A a \in DOMAIN alertas_panico :
        alertas_panico[a].mensaje.kind # "fallback"
            => alertas_panico[a].nivel_emergencia \in {1, 2, 3}

----------------------------------------------------------------------------
(* The counters of a vigilancia against its confirmation rows *)

FilasDe(v, confirma) ==
    {r \in confirmaciones_vigilancia : r.vigilancia_id = v /\ r.confirma = confirma}

(* C36: whenever no confirmar_vigilancia call is in progress, the          *)
(* confirmation count of every vigilancia equals the number of its         *)
(* confirmation rows with confirma = true, and its rejection count the     *)
(* number of its rows with confirma = false.                               *)
C36_CountsMatchRows ==
    (\A w \in DOMAIN calls : calls[w].op # "confirmar_vigilancia") =>
        \A v \in DOMAIN vigilancias :
            /\ vigilancias[v].confirmaciones = Cardinality(FilasDe(v, TRUE))
            /\ vigilancias[v].rechazos = Cardinality(FilasDe(v, FALSE))

(* Two witnesses confirmed and one rejected, in calls that have all        *)
(* returned.                                                               *)
C36_Witness ==
    /\ \A w \in DOMAIN calls : calls[w] = Idle
    /\ 1 \in DOMAIN vigilancias
    /\ vigilancias[1].confirmaciones = 2
    /\ vigilancias[1].rechazos = 1
    /\ Cardinality(FilasDe(1, TRUE)) = 2
    /\ Cardinality(FilasDe(1, FALSE)) = 1

----------------------------------------------------------------------------
(* POST /red/relay from several bystanders that detect the same bracelet   *)
(* at the same time.  Ana's row was written by registrar_usuario, so the   *)
(* celular of her alerts is the one the duplicate check looks for.         *)

InitBystanders ==
    /\ EmptyDb
    /\ reportes_usuario = {}
    /\ tokens_fcm = <<>>
    /\ usuarios_sos = <<UsuarioRow(CelA, "Ana")>>
    /\ dispositivos_ble = <<DispositivoRow(1, 1, TRUE)>>
    /\ contactos_confianza = <<ContactoRow(1, "Beto", CelB, TRUE, TRUE)>>
    /\ cuidadores_autorizados = <<>>
    /\ cuidadores_institucionales = <<>>
    /\ ubicaciones_red = <<>>
    /\ alertas_panico = <<>>
    /\ vigilancias = <<>>
    /\ calls = [w \in 1..Bystanders |-> Idle]

NextBystanders ==
    \/ Tick(RelayMaxTime)
    \/ \E w \in 1..Bystanders : relay_ble(w)

SpecBystanders == InitBystanders /\ [][NextBystanders]_vars

(* C37: of the relay requests for one source that are processed at the     *)
(* same time at most one creates an alert: no two relay-originated alerts  *)
(* of one source identity lie less than 5 minutes apart, and every request *)
(* answered with 200 returns the id of a relay-originated alert of that    *)
(* source.                                                                 *)
C37_OneRelayAlertPerWindow ==
    /\ \A a, b \in DOMAIN alertas_panico :
          /\ a < b
          /\ alertas_panico[a].fuente_alerta = "relay"
          /\ alertas_panico[b].fuente_alerta = "relay"
          /\ identidad(alertas_panico[a].celular) = identidad(alertas_panico[b].celular)
          => alertas_panico[b].fecha_hora - alertas_panico[a].fecha_hora >= VENTANA_RELAY
    /\ respuesta.op = "relay_ble" /\ respuesta.status = 200 =>
          /\ respuesta.result.alerta_id \in DOMAIN alertas_panico
          /\ alertas_panico[respuesta.result.alerta_id].fuente_alerta = "relay"

----------------------------------------------------------------------------
(* POST /panel/setup: create the first admin of the panel *)

(* What neither panel_setup nor the storage cleanup writes *)
notAdmin == <<now, usuarios_sos, contactos_confianza, cuidadores_autorizados,
              cuidadores_institucionales, dispositivos_ble, ubicaciones_red,
              alertas_panico, respuestas_institucionales, reportes_usuario,
              vigilancias, confirmaciones_vigilancia, bg_tasks, dispatcher>>

(* What panel_setup never writes *)
notPanel == <<notAdmin, bucket>>

SetupReqs ==
    [email : {"ana@ami.co", " Ana@Ami.co", "beto@ami.co"}, nombre : {"Ana", "Beto"}]

(* req.email.lower().strip() *)
email_db(email) == IF email = " Ana@Ami.co" THEN "ana@ami.co" ELSE email

PanelRow(email, nombre, rol) ==
    [email |-> email, nombre |-> nombre, rol |-> rol, activo |-> TRUE]

(* The rows counted by SELECT COUNT ... FROM usuarios_panel WHERE rol = 'admin' *)
admins(tabla) == {u \in DOMAIN tabla : tabla[u].rol = "admin"}

(* existing = the count of admins; if existing > 0: 403 *)
ps_count_de(w, req) ==
    /\ Free(w)
    /\ IF Cardinality(admins(usuarios_panel)) > 0
       THEN /\ respuesta' = [op |-> "panel_setup", status |-> 403,
                             result |-> [usuario_id |-> NULL]]
            /\ UNCHANGED calls
       ELSE /\ calls' = [calls EXCEPT ![w] =
                            [op |-> "panel_setup", pc |-> "ps_insert", req |-> req]]
            /\ UNCHANGED respuesta
    /\ UNCHANGED <<notPanel, usuarios_panel>>

ps_count(w) == \E req \in SetupReqs : ps_count_de(w, req)

(* INSERT INTO usuarios_panel (email, password_hash, nombre, rol) VALUES   *)
(* ($1, $2, $3, 'admin') RETURNING id.  email is UNIQUE: a second row with *)
(* the same email raises, and the handler does not catch it.               *)
ps_insert(w) ==
    /\ calls[w].pc = "ps_insert"
    /\ LET email == email_db(calls[w].req.email)
       IN  IF \E u \in DOMAIN usuarios_panel : usuarios_panel[u].email = email
           THEN /\ Return(w, 500, [usuario_id |-> NULL])
                /\ UNCHANGED usuarios_panel
           ELSE /\ usuarios_panel' = Append(usuarios_panel,
                                            PanelRow(email, calls[w].req.nombre, "admin"))
                /\ Return(w, 200, [usuario_id |-> Len(usuarios_panel) + 1])
    /\ UNCHANGED notPanel

panel_setup(w) ==
    \/ ps_count(w)
    \/ ps_insert(w)

InitPanel ==
    /\ EmptyDb
    /\ reportes_usuario = {}
    /\ tokens_fcm = <<>>
    /\ dispositivos_ble = <<>>
    /\ usuarios_sos = <<>>
    /\ contactos_confianza = <<>>
    /\ cuidadores_autorizados = <<>>
    /\ cuidadores_institucionales = <<>>
    /\ ubicaciones_red = <<>>
    /\ alertas_panico = <<>>
    /\ vigilancias = <<>>
    /\ calls = [w \in 1..PanelWorkers |-> Idle]

NextPanel == \E w \in 1..PanelWorkers : panel_setup(w)

SpecPanel == InitPanel /\ [][NextPanel]_vars

(* C38: panel_setup creates an admin only when none exists: at most one    *)
(* admin account is ever created through setup, and a setup call made      *)
(* while an admin exists is refused with 403 and creates nothing.          *)
C38_AtMostOneAdminBySetup ==
    Cardinality(admins(usuarios_panel)) <= 1

(* A setup call whose count statement runs while an admin exists is        *)
(* refused and writes nothing.                                             *)
SetupRefusedWhenAdminCounted ==
    [][\A w \in 1..PanelWorkers : \A req \in SetupReqs :
          ps_count_de(w, req) /\ admins(usuarios_panel) # {} =>
              /\ respuesta'.status = 403
              /\ usuarios_panel' = usuarios_panel
              /\ calls' = calls]_vars

----------------------------------------------------------------------------
(* storage_cleanup.py: the daily cleanup of the storage bucket.  Dates are *)
(* days; an object's name is its first folder and the rest of its path,    *)
(* the rest being empty for a folder marker ("temp/").                     *)

(* What the cleanup never writes *)
notLimpieza == <<notAdmin, usuarios_panel>>

RETENTION_DAYS == [vigilancia |-> 30, temp |-> 7, evidencias |-> 30]

(* The order in which the dict is iterated *)
Carpetas == <<"vigilancia", "temp", "evidencias">>

PROTECTED == {"emergencias"}

(* datetime.utcnow() of a run *)
Hoy == 40

Objeto(carpeta, archivo, time_created, updated) ==
    [carpeta |-> carpeta, archivo |-> archivo, time_created |-> time_created,
     updated |-> updated]

(* Files of every folder on both sides of both retention periods, a file   *)
(* without creation date, and folder markers.                              *)
Objetos ==
    {Objeto(c, "a.jpg", Hoy - e, Hoy - e) :
        c \in {"emergencias", "vigilancia", "temp", "evidencias", "otros"},
        e \in {7, 8, 30, 31}}
    \cup {Objeto("temp", "a.jpg", NULL, Hoy - 31), Objeto("temp", "a.jpg", NULL, NULL),
          Objeto("temp", "", Hoy - 31, Hoy - 31), Objeto("emergencias", "", Hoy - 31, Hoy - 31)}

(* blob_date = blob.time_created or blob.updated *)
blob_date(blob) == IF blob.time_created # NULL THEN blob.time_created ELSE blob.updated

(* blob_date and blob_date.replace(tzinfo=None) < cutoff *)
vencido_o_en_el_limite(fecha, cutoff) == fecha # NULL /\ fecha <= cutoff

vencido(fecha, cutoff) == fecha # NULL /\ fecha < cutoff

(* bucket.list_blobs(prefix=f'{folder}/') *)
list_blobs(folder) == {o \in bucket : o.carpeta = folder}

(* dry_run = '--execute' not in sys.argv; now = datetime.utcnow() *)
lp_inicio(w) ==
    /\ Free(w)
    /\ \E execute \in BOOLEAN :
          calls' = [calls EXCEPT ![w] =
                       [op |-> "storage_cleanup", pc |-> "lp_listar", dry_run |-> ~execute,
                        now |-> Hoy, carpeta |-> 1, blobs |-> {},
                        total_files |-> 0, total_deleted |-> 0]]
    /\ UNCHANGED <<notLimpieza, bucket, respuesta>>

(* for folder, days in RETENTION_DAYS.items(): blobs = list_blobs(...) *)
lp_listar(w) ==
    /\ calls[w].pc = "lp_listar"
    /\ IF calls[w].carpeta > Len(Carpetas)
       THEN calls' = [calls EXCEPT ![w].pc = "lp_protegidas"]
       ELSE calls' = [calls EXCEPT ![w].pc = "lp_blob",
                                   ![w].blobs = list_blobs(Carpetas[calls[w].carpeta])]
    /\ UNCHANGED <<notLimpieza, bucket, respuesta>>

(* One turn of "for blob in blobs": skip a folder marker and a blob that   *)
(* is not old enough; otherwise count it and, unless this is a dry run,    *)
(* delete it, an error of the delete being printed and passed over.        *)
lp_blob(w) ==
    /\ calls[w].pc = "lp_blob"
    /\ LET c == calls[w]
           folder == Carpetas[c.carpeta]
           cutoff == c.now - RETENTION_DAYS[folder]
       IN  IF c.blobs = {}
           THEN /\ calls' = [calls EXCEPT ![w].pc = "lp_listar", ![w].carpeta = @ + 1]
                /\ UNCHANGED bucket
           ELSE \E blob \in c.blobs :
                   IF blob.archivo = "" \/ ~vencido(blob_date(blob), cutoff)
                   THEN /\ calls' = [calls EXCEPT ![w].blobs = @ \ {blob}]
                        /\ UNCHANGED bucket
                   ELSE IF c.dry_run
                   THEN /\ calls' = [calls EXCEPT ![w].blobs = @ \ {blob},
                                                  ![w].total_files = @ + 1]
                        /\ UNCHANGED bucket
                   ELSE \E resultado \in {"ok", "error"} :
                           IF resultado = "ok"
                           THEN /\ bucket' = bucket \ {blob}
                                /\ calls' = [calls EXCEPT ![w].blobs = @ \ {blob},
                                                          ![w].total_files = @ + 1,
                                                          ![w].total_deleted = @ + 1]
                           ELSE /\ calls' = [calls EXCEPT ![w].blobs = @ \ {blob},
                                                          ![w].total_files = @ + 1]
                                /\ UNCHANGED bucket
    /\ UNCHANGED <<notLimpieza, respuesta>>

(* for folder in PROTECTED: the folder is listed and counted, nothing      *)
(* else; then the totals are printed and the script ends.                  *)
lp_protegidas(w) ==
    /\ calls[w].pc = "lp_protegidas"
    /\ Return(w, 0, [dry_run |-> calls[w].dry_run, total_files |-> calls[w].total_files,
                     total_deleted |-> calls[w].total_deleted])
    /\ UNCHANGED <<notLimpieza, bucket>>

storage_cleanup(w) ==
    \/ lp_inicio(w)
    \/ lp_listar(w)
    \/ lp_blob(w)
    \/ lp_protegidas(w)

(* A bucket of at most MaxObjetos objects with different names *)
InitLimpieza ==
    /\ now = 0
    /\ usuarios_panel = <<>>
    /\ respuestas_institucionales = <<>>
    /\ confirmaciones_vigilancia = {}
    /\ alertas_enviadas = <<>>
    /\ fcm = <<>>
    /\ bg_tasks = <<>>
    /\ envios = <<>>
    /\ tareas_ia = <<>>
    /\ respuesta = NoResponse
    /\ reportes_usuario = {}
    /\ tokens_fcm = <<>>
    /\ dispositivos_ble = <<>>
    /\ usuarios_sos = <<>>
    /\ contactos_confianza = <<>>
    /\ cuidadores_autorizados = <<>>
    /\ cuidadores_institucionales = <<>>
    /\ ubicaciones_red = <<>>
    /\ alertas_panico = <<>>
    /\ vigilancias = <<>>
    /\ bucket \in {b \in SUBSET Objetos :
                      /\ Cardinality(b) <= MaxObjetos
                      /\ \A o, p \in b :
                            o.carpeta = p.carpeta /\ o.archivo = p.archivo => o = p}
    /\ calls = [w \in 1..1 |-> Idle]

NextLimpieza == storage_cleanup(1)

SpecLimpieza == InitLimpieza /\ [][NextLimpieza]_vars

(* The days an object has been in the bucket on the day of the run *)
Edad(o) == Hoy - blob_date(o)

(* C39: the cleanup never deletes an object under emergencias/; a dry run  *)
(* deletes no object at all; a run with --execute deletes only objects     *)
(* under vigilancia/, temp/ or evidencias/ that are older than the         *)
(* retention period of their folder (30, 7 and 30 days).                   *)
C39_CleanupDeletesOnlyExpired ==
    [][/\ bucket' \subseteq bucket
       /\ \A o \in bucket \ bucket' :
             /\ o.carpeta # "emergencias"
             /\ ~calls[1].dry_run
             /\ \/ o.carpeta = "vigilancia" /\ Edad(o) > 30
                \/ o.carpeta = "temp" /\ Edad(o) > 7
                \/ o.carpeta = "evidencias" /\ Edad(o) > 30]_vars

(* A run with --execute has ended: it deleted the 8-day-old file of temp/  *)
(* and left the 31-day-old file of emergencias/ and the 30-day-old file of *)
(* vigilancia/ in place.                                                   *)
C39_Witness ==
    /\ calls[1] = Idle
    /\ respuesta.op = "storage_cleanup"
    /\ ~respuesta.result.dry_run
    /\ respuesta.result.total_deleted = 1
    /\ bucket = {Objeto("emergencias", "a.jpg", Hoy - 31, Hoy - 31),
                 Objeto("vigilancia", "a.jpg", Hoy - 30, Hoy - 30)}

====
